---- MODULE Spec2Model ----
(***************************************************************************)
(* A model of the MCP transport of claude-code-go: the JSON-RPC server of  *)
(* internal/mcp/server.go (listeners, one handling task per connection,    *)
(* dispatch by method, resource table), the tool registry of               *)
(* internal/tools/registry.go, and the client of internal/mcp/client.go    *)
(* (request ids, pending-call table, background read loop, 30 s timeout).  *)
(*                                                                         *)
(* Go values and the JSON that travels on a connection are kept apart:     *)
(* encoding/json writes an int64 and a float64 as the same JSON number and *)
(* reads every JSON number that lands in an interface{} as a float64, and  *)
(* it writes a string with its invalid UTF-8 bytes replaced by U+FFFD.     *)
(***************************************************************************)
EXTENDS Integers, Sequences, FiniteSets, TLC

(***************************************************************************)
(* Bounds of the model.                                                    *)
(***************************************************************************)
\* requests a raw peer sends on one connection
MaxReqs == 2
\* messages a connection buffers in one direction before a write blocks
MaxQueue == 1
\* calls the callers of the client issue, all together
MaxCalls == 2
\* responses a test server writes on the client's connection
MaxPeerWrites == 2
\* seconds one step of the clock advances the running timers
TickSeconds == 15

(***************************************************************************)
(* Program constants.                                                      *)
(***************************************************************************)
\* time.After(30 * time.Second) in Client.sendRequest
RequestTimeout == 30
MethodNotFound == -32601
InvalidParams == -32602

(***************************************************************************)
(* Values.                                                                 *)
(***************************************************************************)
\* a JSON object member that is not there / is there with another JSON type
Absent == "<absent>"
NonString == "<non-string>"
NonBool == "<non-bool>"

\* a string holding a byte that is not valid UTF-8, and what encoding/json
\* writes for it
RawFF == "<0xff>"
UFFFD == "<U+FFFD>"
Texts == {"", "hi", RawFF}

\* json.Marshal of a Go string: invalid UTF-8 is coerced to U+FFFD
JSONString(s) == IF s = RawFF THEN UFFFD ELSE s

\* Go values of the interface{} id of a request or response
NilID == [t |-> "nil", v |-> 0]
Int64(n) == [t |-> "int64", v |-> n]
Float64(n) == [t |-> "float64", v |-> n]

\* the JSON of an id on the wire
WireAbsent == [j |-> "absent", v |-> 0]
WireNull == [j |-> "null", v |-> 0]
WireNum(n) == [j |-> "num", v |-> n]

\* json.Marshal of MCPRequest.ID (`json:"id"`): nil is written as null
EncodeRequestID(id) == IF id.t = "nil" THEN WireNull ELSE WireNum(id.v)

\* json.Marshal of MCPResponse.ID (`json:"id,omitempty"`): nil is left out
EncodeResponseID(id) == IF id.t = "nil" THEN WireAbsent ELSE WireNum(id.v)

\* json.Unmarshal into an interface{}: a number becomes a float64, null or
\* a missing member leaves the nil interface
DecodeID(w) == IF w.j = "num" THEN Float64(w.v) ELSE NilID

(***************************************************************************)
(* Params of a request, as the JSON value the server finds in              *)
(* MCPRequest.Params.  Only the members a handler looks at are kept.       *)
(***************************************************************************)
NoArgs ==
    [kind |-> "absent", operation |-> Absent, path |-> Absent, content |-> Absent,
     pattern |-> Absent, case_sensitive |-> Absent, command |-> Absent]

FileArgs(op, path, content) ==
    [NoArgs EXCEPT !.kind = "object", !.operation = op, !.path = path,
                   !.content = content]

SearchArgs(pattern, cs) ==
    [NoArgs EXCEPT !.kind = "object", !.pattern = pattern, !.case_sensitive = cs]

CommandArgs(cmd) == [NoArgs EXCEPT !.kind = "object", !.command = cmd]

NoParams == [kind |-> "absent", name |-> Absent, arguments |-> NoArgs, uri |-> Absent]
NonObjectParams == [NoParams EXCEPT !.kind = "nonobject"]
EmptyObjectParams == [NoParams EXCEPT !.kind = "object"]
CallParams(name, args) == [NoParams EXCEPT !.kind = "object", !.name = name, !.arguments = args]
ReadParams(uri) == [NoParams EXCEPT !.kind = "object", !.uri = uri]

\* req.Params.(map[string]interface{}) then Marshal/Unmarshal into the typed
\* struct: a member that is missing or has the wrong JSON type leaves the
\* field at its zero value
StringField(x) == IF x \in {Absent, NonString} THEN "" ELSE x

CallToolParamsOf(p) ==
    IF p.kind = "object"
    THEN [Name |-> StringField(p.name),
          Arguments |-> IF p.arguments.kind = "object" THEN p.arguments ELSE NoArgs]
    ELSE [Name |-> "", Arguments |-> NoArgs]

ReadResourceParamsOf(p) ==
    IF p.kind = "object" THEN [URI |-> StringField(p.uri)] ELSE [URI |-> ""]

(***************************************************************************)
(* The file system the tools and resources/read work on.                   *)
(***************************************************************************)
Paths == {"a.txt"}
Missing == "<no such file>"
FileStates == Texts \cup {Missing}

\* os.ReadFile(path): the content, or Missing for an error
ReadFile(fs, path) == IF path \in DOMAIN fs THEN fs[path] ELSE Missing

(***************************************************************************)
(* internal/tools/registry.go                                              *)
(***************************************************************************)
\* NewRegistry registers the four built-in tools under their Name()
BuiltinTools == {"file_operations", "git_operations", "shell_execute", "code_search"}

ToolDescription(name) ==
    CASE name = "file_operations" -> "Read, write, and manage files in the codebase"
      [] name = "git_operations" ->
            "Perform git operations like status, diff, add, commit, etc."
      [] name = "shell_execute" ->
            "Execute shell commands for building, testing, and other operations"
      [] name = "code_search" ->
            "Search for text patterns, function definitions, or file names in the codebase"

\* the JSON schema a tool's Parameters() returns, by name
ToolParameters(name) == "schema of " \o name

\* a GetAvailable that leaves out the search tool
GetAvailableWithoutSearch(reg) ==
    {[Type |-> "function", Name |-> n, Description |-> ToolDescription(n),
      Parameters |-> ToolParameters(n)] : n \in reg \ {"code_search"}}

\* Registry.GetAvailable: one llm.Tool per registered tool, in map order
GetAvailable(reg) ==
    {[Type |-> "function", Name |-> n, Description |-> ToolDescription(n),
      Parameters |-> ToolParameters(n)] : n \in reg}

\* outcomes of a tool's Execute: a text, an error, or a panic
ToolOk(text, fs) == [status |-> "ok", text |-> text, err |-> "", fs |-> fs]
ToolErr(msg, fs) == [status |-> "err", text |-> "", err |-> msg, fs |-> fs]
ToolPanic(fs) == [status |-> "panic", text |-> "", err |-> "", fs |-> fs]

IsString(x) == x \notin {Absent, NonString}

\* FileTool.Execute
FileToolExecute(args, fs) ==
    IF ~IsString(args.operation) THEN {ToolErr("operation is required", fs)}
    ELSE IF ~IsString(args.path) THEN {ToolErr("path is required", fs)}
    ELSE CASE args.operation = "read" ->
                IF ReadFile(fs, args.path) = Missing
                THEN {ToolErr("open " \o args.path \o ": no such file or directory", fs)}
                ELSE {ToolOk(ReadFile(fs, args.path), fs)}
           [] args.operation = "write" ->
                IF ~IsString(args.content)
                THEN {ToolErr("content is required for write operation", fs)}
                ELSE IF args.path \in DOMAIN fs
                THEN {ToolOk("File written to " \o args.path,
                             [fs EXCEPT ![args.path] = args.content])}
                ELSE {ToolErr("open " \o args.path \o ": no such file or directory", fs)}
           [] args.operation = "list" ->
                {ToolErr("open " \o args.path \o ": not a directory", fs)}
           [] args.operation = "delete" ->
                IF ReadFile(fs, args.path) = Missing
                THEN {ToolErr("remove " \o args.path \o ": no such file or directory", fs)}
                ELSE {ToolOk("File " \o args.path \o " deleted",
                             [fs EXCEPT ![args.path] = Missing])}
           [] OTHER -> {ToolErr("unknown operation: " \o args.operation, fs)}

\* GitTool.Execute and ShellTool.Execute: the command's combined output, and
\* an error when the command cannot be run or exits with a failure
CommandToolExecute(args, fs) ==
    IF ~IsString(args.command) THEN {ToolErr("command is required", fs)}
    ELSE {ToolOk(t, fs) : t \in Texts} \cup {ToolErr("exit status 1", fs)}

\* SearchTool.Execute: caseSensitive.(bool) is an unchecked type assertion
SearchToolExecute(args, fs) ==
    IF ~IsString(args.pattern) THEN {ToolErr("pattern is required", fs)}
    ELSE IF args.case_sensitive = NonBool THEN {ToolPanic(fs)}
    ELSE {ToolOk("No matches found", fs)} \cup {ToolOk(t, fs) : t \in Texts \ {""}}

ToolExecute(name, args, fs) ==
    CASE name = "file_operations" -> FileToolExecute(args, fs)
      [] name = "code_search" -> SearchToolExecute(args, fs)
      [] OTHER -> CommandToolExecute(args, fs)

\* Registry.Execute
Execute(reg, name, args, fs) ==
    IF name \notin reg
    THEN {ToolErr("tool " \o name \o " not found", fs)}
    ELSE ToolExecute(name, args, fs)

(***************************************************************************)
(* internal/mcp/server.go: messages                                        *)
(***************************************************************************)
\* MCPRequest as the server decodes it
MCPRequest(id, method, params) ==
    [JSONRPC |-> "2.0", ID |-> id, Method |-> method, Params |-> params]

\* Result is an interface{}: nil, or one of the result shapes
NilResult == [kind |-> "nil"]
\* Error is a *MCPError: nil, or a code and a message
NilError == [present |-> FALSE, Code |-> 0, Message |-> ""]
MCPError(code, msg) == [present |-> TRUE, Code |-> code, Message |-> msg]

\* a response built without its ID field
MCPResponseNoID(id, result, error) ==
    [JSONRPC |-> "2.0", ID |-> NilID, Result |-> result, Error |-> error]

MCPResponse(id, result, error) ==
    [JSONRPC |-> "2.0", ID |-> id, Result |-> result, Error |-> error]

\* the zero MCPResponse{} sendRequest returns beside an error
ZeroResponse == [JSONRPC |-> "", ID |-> NilID, Result |-> NilResult, Error |-> NilError]

ProtocolVersion == "2024-11-05"

\* NewMCPServer("claude-go", "0.1.0", tools) of the hosting agent
ServerName == "claude-go"
ServerVersion == "0.1.0"
Capabilities == [tools |-> TRUE, resources |-> TRUE, prompts |-> FALSE]

Resource(uri, name, description, mimeType, metadata) ==
    [URI |-> uri, Name |-> name, Description |-> description, MimeType |-> mimeType,
     Metadata |-> metadata]

(***************************************************************************)
(* internal/mcp/server.go: the handlers.  Each yields the set of outcomes  *)
(* the request can have: the response, the file system it leaves, whether  *)
(* os.ReadFile was called for a resource, and whether the task panicked.   *)
(***************************************************************************)
Answer(resp, fs, read) == [status |-> "ok", resp |-> resp, fs |-> fs, read |-> read]
Panicked(fs) == [status |-> "panic", resp |-> ZeroResponse, fs |-> fs, read |-> FALSE]

\* an initialize that insists on params that are an object
handleInitializeNeedsParams(req, fs) ==
    IF req.Params.kind = "object"
    THEN {Answer(MCPResponse(req.ID,
                             [kind |-> "initialize",
                              protocolVersion |-> ProtocolVersion,
                              capabilities |-> Capabilities,
                              serverInfo |-> [name |-> ServerName,
                                              version |-> ServerVersion]],
                             NilError),
                 fs, FALSE)}
    ELSE {Answer(MCPResponse(req.ID, NilResult, MCPError(InvalidParams, "Invalid params")),
                 fs, FALSE)}

handleInitialize(req, fs) ==
    {Answer(MCPResponse(req.ID,
                        [kind |-> "initialize",
                         protocolVersion |-> ProtocolVersion,
                         capabilities |-> Capabilities,
                         serverInfo |-> [name |-> ServerName, version |-> ServerVersion]],
                        NilError),
            fs, FALSE)}

handleListTools(req, reg, fs) ==
    {Answer(MCPResponse(req.ID,
                        [kind |-> "tools",
                         tools |-> {[name |-> t.Name, description |-> t.Description,
                                     inputSchema |-> t.Parameters] : t \in GetAvailable(reg)}],
                        NilError),
            fs, FALSE)}

\* handleCallTool without the check of Execute's error
handleCallToolIgnoresError(req, reg, fs) ==
    LET params == CallToolParamsOf(req.Params)
    IN  {IF o.status = "panic"
         THEN Panicked(o.fs)
         ELSE Answer(MCPResponse(req.ID,
                                 [kind |-> "content",
                                  content |-> <<[type |-> "text", text |-> o.text]>>],
                                 NilError),
                     o.fs, FALSE)
         : o \in Execute(reg, params.Name, params.Arguments, fs)}

handleCallTool(req, reg, fs) ==
    LET params == CallToolParamsOf(req.Params)
    IN  {CASE o.status = "panic" -> Panicked(o.fs)
           [] o.status = "err" ->
                Answer(MCPResponse(req.ID, NilResult,
                                   MCPError(InvalidParams,
                                            "Tool execution failed: " \o o.err)),
                       o.fs, FALSE)
           [] OTHER ->
                Answer(MCPResponse(req.ID,
                                   [kind |-> "content",
                                    content |-> <<[type |-> "text", text |-> o.text]>>],
                                   NilError),
                       o.fs, FALSE)
         : o \in Execute(reg, params.Name, params.Arguments, fs)}

\* a resources/list whose result is nil while nothing is registered
handleListResourcesNilWhenEmpty(req, res, fs) ==
    {Answer(MCPResponse(req.ID,
                        IF DOMAIN res = {} THEN NilResult
                        ELSE [kind |-> "resources", resources |-> {res[u] : u \in DOMAIN res}],
                        NilError),
            fs, FALSE)}

handleListResources(req, res, fs) ==
    {Answer(MCPResponse(req.ID,
                        [kind |-> "resources", resources |-> {res[u] : u \in DOMAIN res}],
                        NilError),
            fs, FALSE)}

\* a miss reported with the code of an unknown method
ResourceNotFoundAsMethodNotFound(req) ==
    MCPResponse(req.ID, NilResult, MCPError(MethodNotFound, "Resource not found"))

\* the response of handleReadResource when the uri is not in the table
ResourceNotFound(req) ==
    MCPResponse(req.ID, NilResult, MCPError(InvalidParams, "Resource not found"))

\* a handleReadResource that reports a failed read without its cause
handleReadResourceHidesCause(req, res, fs) ==
    LET params == ReadResourceParamsOf(req.Params)
    IN  IF params.URI \notin DOMAIN res
        THEN {Answer(ResourceNotFound(req), fs, FALSE)}
        ELSE LET resource == res[params.URI]
             IN  IF resource.MimeType \in {"text/plain", "application/octet-stream"}
                 THEN IF ReadFile(fs, resource.URI) = Missing
                      THEN {Answer(MCPResponse(req.ID, NilResult,
                                       MCPError(InvalidParams, "Failed to read resource")),
                                   fs, TRUE)}
                      ELSE {Answer(MCPResponse(req.ID,
                                       [kind |-> "contents",
                                        contents |-> <<[uri |-> resource.URI,
                                                        mimeType |-> resource.MimeType,
                                                        text |-> ReadFile(fs, resource.URI)]>>],
                                       NilError),
                                   fs, TRUE)}
                 ELSE {Answer(MCPResponse(req.ID, NilResult,
                                  MCPError(InvalidParams, "Unsupported resource type")),
                              fs, FALSE)}

handleReadResource(req, res, fs) ==
    LET params == ReadResourceParamsOf(req.Params)
    IN  IF params.URI \notin DOMAIN res
        THEN {Answer(ResourceNotFound(req), fs, FALSE)}
        ELSE LET resource == res[params.URI]
             IN  IF resource.MimeType \in {"text/plain", "application/octet-stream"}
                 THEN IF ReadFile(fs, resource.URI) = Missing
                      THEN {Answer(MCPResponse(req.ID, NilResult,
                                       MCPError(InvalidParams,
                                                "Failed to read resource: open "
                                                    \o resource.URI
                                                    \o ": no such file or directory")),
                                   fs, TRUE)}
                      ELSE {Answer(MCPResponse(req.ID,
                                       [kind |-> "contents",
                                        contents |-> <<[uri |-> resource.URI,
                                                        mimeType |-> resource.MimeType,
                                                        text |-> ReadFile(fs, resource.URI)]>>],
                                       NilError),
                                   fs, TRUE)}
                 ELSE {Answer(MCPResponse(req.ID, NilResult,
                                  MCPError(InvalidParams, "Unsupported resource type")),
                              fs, FALSE)}

\* a dispatch whose default case falls into the initialize handler
handleRequestUnknownAsInitialize(req, reg, res, fs) ==
    CASE req.Method = "tools/list" -> handleListTools(req, reg, fs)
      [] req.Method = "tools/call" -> handleCallTool(req, reg, fs)
      [] req.Method = "resources/list" -> handleListResources(req, res, fs)
      [] req.Method = "resources/read" -> handleReadResource(req, res, fs)
      [] OTHER -> handleInitialize(req, fs)

handleRequest(req, reg, res, fs) ==
    CASE req.Method = "initialize" -> handleInitialize(req, fs)
      [] req.Method = "tools/list" -> handleListTools(req, reg, fs)
      [] req.Method = "tools/call" -> handleCallTool(req, reg, fs)
      [] req.Method = "resources/list" -> handleListResources(req, res, fs)
      [] req.Method = "resources/read" -> handleReadResource(req, res, fs)
      [] OTHER ->
            {Answer(MCPResponse(req.ID, NilResult,
                                MCPError(MethodNotFound, "Method not found")),
                    fs, FALSE)}

(***************************************************************************)
(* encoding/json on the connection                                         *)
(***************************************************************************)
\* json.Marshal of a Result: every string in it goes through JSONString
EncodeResult(r) ==
    CASE r.kind = "content" ->
            [r EXCEPT !.content = [i \in DOMAIN r.content |->
                                     [r.content[i] EXCEPT !.text = JSONString(@)]]]
      [] r.kind = "contents" ->
            [r EXCEPT !.contents = [i \in DOMAIN r.contents |->
                                      [r.contents[i] EXCEPT !.text = JSONString(@)]]]
      [] OTHER -> r

\* Encoder.Encode(req) of the client
EncodeRequest(req) ==
    [tag |-> "request", id |-> EncodeRequestID(req.ID), method |-> req.Method,
     params |-> req.Params]

\* Decoder.Decode(&req) of the server, for a well-formed value
DecodeRequest(w) == MCPRequest(DecodeID(w.id), w.method, w.params)

\* Encoder.Encode(resp) of the server
EncodeResponse(resp) ==
    [tag |-> "response", id |-> EncodeResponseID(resp.ID),
     result |-> EncodeResult(resp.Result),
     error |-> [resp.Error EXCEPT !.Message = JSONString(@)]]

\* Decoder.Decode(&resp) of the client, for a well-formed value
DecodeResponse(w) ==
    [JSONRPC |-> "2.0", ID |-> DecodeID(w.id), Result |-> w.result, Error |-> w.error]

\* a value on the wire that is not well-formed JSON
Garbage == [tag |-> "garbage"]
\* a value a raw peer has written and the server has not yet decoded
RawPending == [tag |-> "pending"]

(***************************************************************************)
(* Inputs.                                                                 *)
(***************************************************************************)
\* the listeners: Start(socketPath) makes "unix", StartTCP(port) makes "tcp"
Listeners == {"unix", "tcp"}
\* connections: "c1" is the one the mcp.Client dials, "r1" is dialled by a
\* peer that writes requests of its own making
ClientConn == "c1"
RawConns == {"r1"}
Conns == {ClientConn} \cup RawConns

\* what the hosting application registers
URIs == {"", "a.txt"}
Mimes == {"text/plain", "application/json", "application/octet-stream"}
Registrations ==
    {Resource(u, u, "file " \o u, m, "language")
        : u \in URIs \ {""}, m \in Mimes}
    \cup {Resource("", "", "file ", "text/plain", "language")}

\* what a raw peer sends
RawIds == {WireNum(1), WireNum(2), WireNull}
RawParams(method) ==
    CASE method = "initialize" -> {NoParams, EmptyObjectParams}
      [] method = "tools/call" ->
            {NoParams, NonObjectParams, EmptyObjectParams,
             CallParams(NonString, NoArgs),
             CallParams("no_such_tool", FileArgs("read", "a.txt", Absent)),
             CallParams("file_operations", FileArgs("read", "a.txt", Absent)),
             CallParams("file_operations", FileArgs("write", "a.txt", "hi")),
             CallParams("code_search", SearchArgs("x", NonBool)),
             CallParams("shell_execute", CommandArgs("ls"))}
      [] method = "resources/read" ->
            {NoParams, EmptyObjectParams, ReadParams(NonString), ReadParams(""),
             ReadParams("a.txt"), ReadParams("zzz")}
      [] OTHER -> {NoParams}
Methods == {"initialize", "tools/list", "tools/call", "resources/list", "resources/read"}
RawMethods == Methods \cup {"bogus/method"}
RawRequests ==
    UNION {{[tag |-> "request", id |-> i, method |-> m, params |-> p]
               : i \in RawIds, p \in RawParams(m)} : m \in RawMethods}

\* what a peer sends that writes requests and does not read the responses
SilentRequests ==
    {[tag |-> "request", id |-> WireNum(1), method |-> "tools/list", params |-> NoParams],
     [tag |-> "request", id |-> WireNum(1), method |-> "tools/call",
      params |-> CallParams("code_search", SearchArgs("x", NonBool))]}

(***************************************************************************)
(* State.                                                                  *)
(***************************************************************************)
VARIABLES
    \* Server
    resources,   \* s.resources: uri -> Resource
    registered,  \* history: the descriptor of the latest RegisterResource call
    listeners,   \* s.listeners: the listeners appended by Start and StartTCP
    lst,         \* each listener's socket: "new", "listening" or "closed"
    acc,         \* each acceptConnections task: "none", "running" or "returned"
    hc, \* each handleConnection task: its position, request and response
    crashed,     \* the server process was ended by a panic
    \* the file system
    files,
    \* connections
    cstate,      \* "free", "backlog" (dialled, not yet accepted) or "accepted"
    via,         \* the listener a connection was dialled to
    cside,       \* the dialling end: "open" or "closed"
    sside,       \* the accepted end: "open" or "closed"
    c2s,         \* values written by the dialling end, not yet decoded
    s2c,         \* values written by the server, not yet decoded
    \* history of each connection's handling task
    reqLog,      \* ids of the requests decoded, in order
    respLog,     \* ids of the responses written, in order
    \* Client
    clientConn,  \* c.conn, with its encoder and decoder: "nil" or a connection
    closeErr,    \* history: what the latest Close returned ("none" before any)
    requestID,   \* c.requestID
    responses,   \* c.responses: request id -> the caller whose channel it is
    slot,        \* each caller's respChan, of capacity 1
    call,        \* each caller's position in the API method and in sendRequest
    rl, \* the readResponses task: its position and the response decoded
    serverInfo,  \* c.serverInfo
    \* the finer steps of the tasks
    mu,          \* s.mu and c.mu: the writer, the readers, the writers waiting
    app,         \* the hosting application's RegisterResource call in progress
    found,       \* each handling task's copy of what it read in s.resources
    rl0          \* the readResponses task an earlier connect started

serverVars == <<resources, registered, listeners, lst, acc, hc, crashed>>
connVars == <<cstate, via, cside, sside, c2s, s2c>>
logVars == <<reqLog, respLog>>
clientVars == <<clientConn, closeErr, requestID, responses, slot, call, rl, serverInfo>>
lockVars == <<mu, app, found>>
fineVars == <<lockVars, rl0>>
vars == <<serverVars, files, connVars, logVars, clientVars, fineVars>>

\* the callers that share the client
Callers == {"A", "B"}

\* what an API method returns to its caller: status "ok" with a text or a
\* tool list, or status "err" with the error's message
NoOutcome == [status |-> "none", err |-> "", text |-> "", tools |-> {}]

\* a caller: pc is "idle", or its place in sendRequest ("register", "encode",
\* "select", "defer") or "return" (back in the API method); req, resp and
\* err are sendRequest's argument and results, waited the seconds its
\* time.After timer has run, n the calls it has made, out what the last call
\* returned.  echoed and echo are history: the read loop decoded, while the
\* call was registered, a response with the number of the call's id
IdleCall ==
    [pc |-> "idle", api |-> "none", req |-> MCPRequest(NilID, "", NoParams),
     resp |-> ZeroResponse, err |-> "", waited |-> 0, n |-> 0, out |-> NoOutcome,
     echoed |-> FALSE, echo |-> ZeroResponse]
NoReadLoop == [pc |-> "none", resp |-> ZeroResponse]

\* a handling task: pc is "none" (not started), "decode", "encode", "done"
\* (returned) or "panic"; req, resp and read are those of the request in
\* hand; last says whether the request answered before it had a recognized
\* method ("known", "unknown"; "" when there was none)
NoHandler ==
    [pc |-> "none", req |-> MCPRequest(NilID, "", NoParams), resp |-> ZeroResponse,
     read |-> FALSE, last |-> ""]

\* no descriptor: RegisterResource has not been called
NoResource == Resource("<none>", "", "", "", "")

\* sync.RWMutex: s.mu of the server and c.mu of the client.  w is the task
\* that holds the lock for writing, r the tasks that hold it for reading, q
\* the tasks that called Lock and wait for it
Mutexes == {"s.mu", "c.mu"}
FreeMutex == [w |-> "none", r |-> {}, q |-> {}]

\* the hosting application is not inside RegisterResource
NoRegistration == [pc |-> "idle", r |-> NoResource]

\* no read loop of an earlier connection; dec is the connection whose
\* decoder the loop's Decode reads
NoEarlierLoop == [pc |-> "none", resp |-> ZeroResponse, dec |-> "nil"]

\* NewMCPServer, NewRegistry, NewMCPClient; nothing listens, nothing is connected
Init ==
    /\ resources = <<>>
    /\ registered = NoResource
    /\ listeners = <<>>
    /\ lst = [l \in Listeners |-> "new"]
    /\ acc = [l \in Listeners |-> "none"]
    /\ hc = [c \in Conns |-> NoHandler]
    /\ crashed = FALSE
    /\ files = [p \in Paths |-> Missing]
    /\ cstate = [c \in Conns |-> "free"]
    /\ via = [c \in Conns |-> "unix"]
    /\ cside = [c \in Conns |-> "open"]
    /\ sside = [c \in Conns |-> "open"]
    /\ c2s = [c \in Conns |-> <<>>]
    /\ s2c = [c \in Conns |-> <<>>]
    /\ reqLog = [c \in Conns |-> <<>>]
    /\ respLog = [c \in Conns |-> <<>>]
    /\ clientConn = "nil"
    /\ closeErr = "none"
    /\ requestID = 0
    /\ responses = <<>>
    /\ slot = [k \in Callers |-> <<>>]
    /\ call = [k \in Callers |-> IdleCall]
    /\ rl = NoReadLoop
    /\ serverInfo = [name |-> "", version |-> ""]
    /\ mu = [m \in Mutexes |-> FreeMutex]
    /\ app = NoRegistration
    /\ found = [c \in Conns |-> <<>>]
    /\ rl0 = NoEarlierLoop

\* the server's end of a connection no longer reads or writes: the handling
\* task closed it, the listener was closed with the connection still in its
\* backlog, or the process is gone
ServerEndClosed(c) ==
    \/ sside[c] = "closed"
    \/ crashed
    \/ cstate[c] = "backlog" /\ lst[via[c]] = "closed"

(***************************************************************************)
(* Server: Start, StartTCP, Stop, acceptConnections, RegisterResource      *)
(***************************************************************************)
\* net.Listen; s.listeners = append(s.listeners, listener); go acceptConnections
StartListener(l) ==
    /\ ~crashed
    /\ lst[l] = "new"
    /\ lst' = [lst EXCEPT ![l] = "listening"]
    /\ listeners' = Append(listeners, l)
    /\ acc' = [acc EXCEPT ![l] = "running"]
    /\ UNCHANGED <<clientVars, fineVars, resources, registered, hc, crashed, files, connVars, logVars>>

Start == StartListener("unix")

StartTCP == StartListener("tcp")

\* a Stop that forgets its listeners without closing them
StopLeavesListenersOpen ==
    /\ ~crashed
    /\ listeners' = <<>>
    /\ UNCHANGED <<clientVars, fineVars, resources, registered, lst, acc, hc, crashed, files, connVars,
                   logVars>>

\* every listener of s.listeners is closed; s.listeners = nil
Stop ==
    /\ ~crashed
    /\ lst' = [l \in Listeners |->
                 IF \E i \in DOMAIN listeners : listeners[i] = l THEN "closed" ELSE lst[l]]
    /\ listeners' = <<>>
    /\ UNCHANGED <<clientVars, fineVars, resources, registered, acc, hc, crashed, files, connVars, logVars>>

\* listener.Accept() returned a connection: go s.handleConnection(conn)
Accept(l, c) ==
    /\ ~crashed
    /\ acc[l] = "running"
    /\ lst[l] = "listening"
    /\ cstate[c] = "backlog"
    /\ via[c] = l
    /\ cstate' = [cstate EXCEPT ![c] = "accepted"]
    /\ hc' = [hc EXCEPT ![c] = [NoHandler EXCEPT !.pc = "decode"]]
    /\ UNCHANGED <<clientVars, fineVars, resources, registered, listeners, lst, acc, crashed, files, via, cside,
                   sside, c2s, s2c, logVars>>

\* listener.Accept() returned an error: the listener is closed
AcceptReturn(l) ==
    /\ ~crashed
    /\ acc[l] = "running"
    /\ lst[l] = "closed"
    /\ acc' = [acc EXCEPT ![l] = "returned"]
    /\ UNCHANGED <<clientVars, fineVars, resources, registered, listeners, lst, hc, crashed, files, connVars,
                   logVars>>

acceptConnections(l) == AcceptReturn(l) \/ \E c \in Conns : Accept(l, c)

\* a RegisterResource that leaves the descriptor a uri already has
RegisterResourceKeepsFirst(r) ==
    /\ ~crashed
    /\ resources' = [u \in DOMAIN resources \cup {r.URI} |->
                       IF u \in DOMAIN resources THEN resources[u] ELSE r]
    /\ registered' = r
    /\ UNCHANGED <<clientVars, fineVars, listeners, lst, acc, hc, crashed, files, connVars, logVars>>

\* a RegisterResource that puts the descriptor in an emptied table
RegisterResourceDropsOthers(r) ==
    /\ ~crashed
    /\ resources' = [u \in {r.URI} |-> r]
    /\ registered' = r
    /\ UNCHANGED <<clientVars, fineVars, listeners, lst, acc, hc, crashed, files, connVars, logVars>>

\* s.resources[uri] = Resource{...}, under s.mu
RegisterResource(r) ==
    /\ ~crashed
    /\ resources' = [u \in DOMAIN resources \cup {r.URI} |->
                       IF u = r.URI THEN r ELSE resources[u]]
    /\ registered' = r
    /\ UNCHANGED <<clientVars, fineVars, listeners, lst, acc, hc, crashed, files, connVars, logVars>>

(***************************************************************************)
(* Server: handleConnection.  One iteration of its loop is two steps:      *)
(* Decode(&req) with handleRequest(req), then Encode(resp).                *)
(***************************************************************************)
\* the deferred conn.Close() on return
HandlerReturn(c) ==
    /\ hc' = [hc EXCEPT ![c] = [NoHandler EXCEPT !.pc = "done", !.last = hc[c].last]]
    /\ sside' = [sside EXCEPT ![c] = "closed"]

\* what Decode finds at the head of the stream: a peer's value is drawn when
\* it is decoded, a client's value is the one it encoded
Incoming(c) ==
    IF Head(c2s[c]).tag # "pending" THEN {Head(c2s[c])}
    ELSE IF c \in RawConns THEN RawRequests \cup {Garbage}
    ELSE SilentRequests \cup {Garbage}

\* a server that answers only initialize on a connection that has not yet
\* had a request answered
NotInitialized(req) ==
    {Answer(MCPResponse(req.ID, NilResult, MCPError(InvalidParams, "Server not initialized")),
            files, FALSE)}

ServerDecodeGated(c) ==
    /\ ~crashed
    /\ hc[c].pc = "decode"
    /\ c2s[c] # <<>>
    /\ \E w \in Incoming(c) :
          /\ w.tag = "request"
          /\ \E o \in IF hc[c].last = "" /\ w.method # "initialize"
                      THEN NotInitialized(DecodeRequest(w))
                      ELSE handleRequest(DecodeRequest(w), BuiltinTools, resources, files) :
                /\ c2s' = [c2s EXCEPT ![c] = Tail(@)]
                /\ reqLog' = [reqLog EXCEPT ![c] = Append(@, DecodeRequest(w).ID)]
                /\ files' = o.fs
                /\ IF o.status = "panic"
                   THEN /\ crashed' = TRUE
                        /\ hc' = [hc EXCEPT ![c] = [@ EXCEPT !.pc = "panic",
                                                              !.req = DecodeRequest(w)]]
                   ELSE /\ crashed' = crashed
                        /\ hc' = [hc EXCEPT ![c] = [pc |-> "encode",
                                                    req |-> DecodeRequest(w),
                                                    resp |-> o.resp, read |-> o.read,
                                                    last |-> hc[c].last]]
    /\ UNCHANGED <<clientVars, fineVars, resources, registered, listeners, lst, acc, cstate, via,
                   cside, sside, s2c, respLog>>

\* decoder.Decode(&req) succeeded; resp := s.handleRequest(req)
ServerDecode(c) ==
    /\ ~crashed
    /\ hc[c].pc = "decode"
    /\ c2s[c] # <<>>
    /\ \E w \in Incoming(c) :
          /\ w.tag = "request"
          /\ \E o \in handleRequest(DecodeRequest(w), BuiltinTools, resources, files) :
                /\ c2s' = [c2s EXCEPT ![c] = Tail(@)]
                /\ reqLog' = [reqLog EXCEPT ![c] = Append(@, DecodeRequest(w).ID)]
                /\ files' = o.fs
                /\ IF o.status = "panic"
                   THEN /\ crashed' = TRUE
                        /\ hc' = [hc EXCEPT ![c] = [@ EXCEPT !.pc = "panic",
                                                              !.req = DecodeRequest(w)]]
                   ELSE /\ crashed' = crashed
                        /\ hc' = [hc EXCEPT ![c] = [pc |-> "encode",
                                                    req |-> DecodeRequest(w),
                                                    resp |-> o.resp, read |-> o.read,
                                                    last |-> hc[c].last]]
    /\ UNCHANGED <<clientVars, fineVars, resources, registered, listeners, lst, acc, cstate, via, cside, sside,
                   s2c, respLog>>

\* a failed Decode after which the task returns without closing the connection
ServerDecodeFailKeepsOpen(c) ==
    /\ ~crashed
    /\ hc[c].pc = "decode"
    /\ \/ c2s[c] # <<>> /\ \E w \in Incoming(c) : w.tag # "request"
       \/ c2s[c] = <<>> /\ cside[c] = "closed"
    /\ hc' = [hc EXCEPT ![c] = [NoHandler EXCEPT !.pc = "done", !.last = hc[c].last]]
    /\ c2s' = [c2s EXCEPT ![c] = <<>>]
    /\ UNCHANGED <<clientVars, fineVars, resources, registered, listeners, lst, acc, crashed, files,
                   cstate, via, cside, sside, s2c, logVars>>

\* decoder.Decode(&req) failed: malformed JSON, or the stream ended
ServerDecodeFail(c) ==
    /\ ~crashed
    /\ hc[c].pc = "decode"
    /\ \/ c2s[c] # <<>> /\ \E w \in Incoming(c) : w.tag # "request"
       \/ c2s[c] = <<>> /\ cside[c] = "closed"
    /\ HandlerReturn(c)
    /\ c2s' = [c2s EXCEPT ![c] = <<>>]
    /\ UNCHANGED <<clientVars, fineVars, resources, registered, listeners, lst, acc, crashed, files, cstate, via,
                   cside, s2c, logVars>>

\* an Encode that does not go back to Decode: the response is written again
ServerEncodeAgain(c) ==
    /\ ~crashed
    /\ hc[c].pc = "encode"
    /\ c \in RawConns \/ Len(s2c[c]) < MaxQueue
    /\ s2c' = IF c \in RawConns \/ cside[c] = "closed"
              THEN s2c
              ELSE [s2c EXCEPT ![c] = Append(@, EncodeResponse(hc[c].resp))]
    /\ respLog' = [respLog EXCEPT ![c] = Append(@, hc[c].resp.ID)]
    /\ UNCHANGED <<clientVars, fineVars, serverVars, files, cstate, via, cside, sside, c2s, reqLog>>

\* encoder.Encode(resp) succeeded.  A raw peer reads what the server writes
\* as it arrives; the mcp.Client's read loop takes it from s2c
ServerEncode(c) ==
    /\ ~crashed
    /\ hc[c].pc = "encode"
    /\ c \in RawConns \/ Len(s2c[c]) < MaxQueue
    /\ s2c' = IF c \in RawConns \/ cside[c] = "closed"
              THEN s2c
              ELSE [s2c EXCEPT ![c] = Append(@, EncodeResponse(hc[c].resp))]
    /\ respLog' = [respLog EXCEPT ![c] = Append(@, hc[c].resp.ID)]
    /\ hc' = [hc EXCEPT ![c] = [NoHandler EXCEPT !.pc = "decode",
                                                  !.last = IF hc[c].req.Method \in Methods
                                                          THEN "known" ELSE "unknown"]]
    /\ UNCHANGED <<clientVars, fineVars, resources, registered, listeners, lst, acc, crashed, files, cstate, via,
                   cside, sside, c2s, reqLog>>

\* encoder.Encode(resp) failed: the peer has closed the connection
ServerEncodeFail(c) ==
    /\ ~crashed
    /\ hc[c].pc = "encode"
    /\ cside[c] = "closed"
    /\ HandlerReturn(c)
    /\ UNCHANGED <<clientVars, fineVars, resources, registered, listeners, lst, acc, crashed, files, cstate, via,
                   cside, c2s, s2c, logVars>>

handleConnection(c) ==
    ServerDecode(c) \/ ServerDecodeFail(c) \/ ServerEncode(c) \/ ServerEncodeFail(c)

(***************************************************************************)
(* Environment: the file system, and a peer that speaks JSON by hand       *)
(***************************************************************************)
FileChange(p, st) ==
    /\ files[p] # st
    /\ files' = [files EXCEPT ![p] = st]
    /\ UNCHANGED <<clientVars, fineVars, serverVars, connVars, logVars>>

\* net.Dial to a listening socket: the connection waits to be accepted
Dial(c, l) ==
    /\ ~crashed
    /\ cstate[c] = "free"
    /\ lst[l] = "listening"
    /\ cstate' = [cstate EXCEPT ![c] = "backlog"]
    /\ via' = [via EXCEPT ![c] = l]

RawDial(c, l) ==
    /\ Dial(c, l)
    /\ UNCHANGED <<clientVars, fineVars, serverVars, files, cside, sside, c2s, s2c, logVars>>

CanWrite(c) ==
    /\ cstate[c] # "free"
    /\ cside[c] = "open"
    /\ ~ServerEndClosed(c)
    /\ Len(c2s[c]) < MaxQueue

\* the peer writes one JSON value, well-formed or not
RawSend(c) ==
    /\ CanWrite(c)
    /\ Len(reqLog[c]) + Len(c2s[c]) < MaxReqs
    /\ c2s' = [c2s EXCEPT ![c] = Append(@, RawPending)]
    /\ UNCHANGED <<clientVars, fineVars, serverVars, files, cstate, via, cside, sside, s2c, logVars>>

RawClose(c) ==
    /\ cstate[c] # "free"
    /\ cside[c] = "open"
    /\ cside' = [cside EXCEPT ![c] = "closed"]
    /\ UNCHANGED <<clientVars, fineVars, serverVars, files, cstate, via, sside, c2s, s2c, logVars>>

(***************************************************************************)
(* internal/mcp/client.go: connecting and closing                          *)
(***************************************************************************)
\* net.Dial; c.conn, c.encoder, c.decoder are set; go c.readResponses()
Connect(l) ==
    /\ clientConn = "nil"
    /\ Dial(ClientConn, l)
    /\ clientConn' = ClientConn
    /\ rl' = [NoReadLoop EXCEPT !.pc = "decode"]
    /\ UNCHANGED <<serverVars, files, cside, sside, c2s, s2c, logVars, closeErr, requestID,
                   responses, slot, call, serverInfo, fineVars>>

ConnectUnix == Connect("unix")

ConnectTCP == Connect("tcp")

\* a second connect that starts the counter of request ids again
ReconnectResetsCounter(l) ==
    /\ ~crashed
    /\ clientConn # "nil"
    /\ cside[clientConn] = "closed"
    /\ rl.pc = "returned"
    /\ hc[clientConn].pc \in {"none", "done"}
    /\ lst[l] = "listening"
    /\ cstate' = [cstate EXCEPT ![clientConn] = "backlog"]
    /\ via' = [via EXCEPT ![clientConn] = l]
    /\ cside' = [cside EXCEPT ![clientConn] = "open"]
    /\ sside' = [sside EXCEPT ![clientConn] = "open"]
    /\ c2s' = [c2s EXCEPT ![clientConn] = <<>>]
    /\ s2c' = [s2c EXCEPT ![clientConn] = <<>>]
    /\ hc' = [hc EXCEPT ![clientConn] = NoHandler]
    /\ reqLog' = [reqLog EXCEPT ![clientConn] = <<>>]
    /\ respLog' = [respLog EXCEPT ![clientConn] = <<>>]
    /\ rl' = [NoReadLoop EXCEPT !.pc = "decode"]
    /\ requestID' = 0
    /\ UNCHANGED <<resources, registered, listeners, lst, acc, crashed, files, clientConn,
                   closeErr, responses, slot, call, serverInfo, fineVars>>

\* ConnectUnix or ConnectTCP called again, after Close, when the read loop
\* and the server's task of the old connection have returned: c.conn,
\* c.encoder and c.decoder are replaced and a new read loop is started.  The
\* connection's record stands for the new connection from here on
Reconnect(l) ==
    /\ ~crashed
    /\ clientConn # "nil"
    /\ cside[clientConn] = "closed"
    /\ rl.pc = "returned"
    /\ hc[clientConn].pc \in {"none", "done"}
    /\ lst[l] = "listening"
    /\ cstate' = [cstate EXCEPT ![clientConn] = "backlog"]
    /\ via' = [via EXCEPT ![clientConn] = l]
    /\ cside' = [cside EXCEPT ![clientConn] = "open"]
    /\ sside' = [sside EXCEPT ![clientConn] = "open"]
    /\ c2s' = [c2s EXCEPT ![clientConn] = <<>>]
    /\ s2c' = [s2c EXCEPT ![clientConn] = <<>>]
    /\ hc' = [hc EXCEPT ![clientConn] = NoHandler]
    /\ reqLog' = [reqLog EXCEPT ![clientConn] = <<>>]
    /\ respLog' = [respLog EXCEPT ![clientConn] = <<>>]
    /\ rl' = [NoReadLoop EXCEPT !.pc = "decode"]
    /\ UNCHANGED <<resources, registered, listeners, lst, acc, crashed, files, clientConn,
                   closeErr, requestID, responses, slot, call, serverInfo, fineVars>>

\* the error net.Conn.Close returns for a connection that is closed already
ErrClosed == "use of closed network connection"

\* if c.conn != nil { return c.conn.Close() }; return nil
Close ==
    /\ IF clientConn = "nil"
       THEN closeErr' = "nil" /\ cside' = cside
       ELSE IF cside[clientConn] = "open"
       THEN closeErr' = "nil" /\ cside' = [cside EXCEPT ![clientConn] = "closed"]
       ELSE closeErr' = ErrClosed /\ cside' = cside
    /\ UNCHANGED <<serverVars, files, cstate, via, sside, c2s, s2c, logVars, clientConn,
                   requestID, responses, slot, call, rl, serverInfo, fineVars>>

(***************************************************************************)
(* internal/mcp/client.go: Initialize, ListTools, CallTool up to their     *)
(* call of sendRequest                                                     *)
(***************************************************************************)
\* atomic.AddInt64(&c.requestID, 1)
nextRequestID == requestID + 1

\* the request is built with ID: c.nextRequestID() and sendRequest is entered
StartCall(k, api, method, params) ==
    /\ clientConn # "nil"
    /\ call[k].pc = "idle"
    /\ requestID < MaxCalls
    /\ requestID' = nextRequestID
    /\ call' = [call EXCEPT ![k] =
                  [IdleCall EXCEPT !.pc = "register", !.api = api,
                                   !.req = MCPRequest(Int64(nextRequestID), method, params),
                                   !.n = call[k].n + 1]]
    /\ UNCHANGED <<serverVars, files, connVars, logVars, clientConn, closeErr, responses, slot, rl,
                   serverInfo, fineVars>>

\* InitializeParams is a struct: the server decodes it as an object
Initialize(k) == StartCall(k, "Initialize", "initialize", EmptyObjectParams)

\* Params is nil and omitted
ListTools(k) == StartCall(k, "ListTools", "tools/list", NoParams)

CallTool(k, name, arguments) ==
    StartCall(k, "CallTool", "tools/call", CallParams(name, arguments))

\* the tools and arguments callers pass to CallTool
ToolCalls ==
    {<<"file_operations", FileArgs("write", "a.txt", "hi")>>,
     <<"file_operations", FileArgs("read", "a.txt", Absent)>>}

(***************************************************************************)
(* internal/mcp/client.go: sendRequest                                     *)
(***************************************************************************)
\* a sendRequest that goes on to Encode without an entry in c.responses
RegisterNothing(k) ==
    /\ call[k].pc = "register"
    /\ slot' = [slot EXCEPT ![k] = <<>>]
    /\ call' = [call EXCEPT ![k].pc = "encode"]
    /\ UNCHANGED <<serverVars, files, connVars, logVars, clientConn, closeErr, requestID, rl,
                   responses, serverInfo, fineVars>>

\* c.responses[req.ID] = respChan, under c.mu
Register(k) ==
    /\ call[k].pc = "register"
    /\ responses' = [i \in DOMAIN responses \cup {call[k].req.ID} |->
                       IF i = call[k].req.ID THEN k ELSE responses[i]]
    /\ slot' = [slot EXCEPT ![k] = <<>>]
    /\ call' = [call EXCEPT ![k].pc = "encode"]
    /\ UNCHANGED <<serverVars, files, connVars, logVars, clientConn, closeErr, requestID, rl,
                   serverInfo, fineVars>>

\* c.encoder.Encode(req) succeeded; the select is entered and its timer set.
\* What is written to a connection whose other end is gone is lost
EncodeOK(k) ==
    /\ call[k].pc = "encode"
    /\ cstate[clientConn] # "free"
    /\ cside[clientConn] = "open"
    /\ Len(c2s[clientConn]) < MaxQueue
    /\ c2s' = IF ServerEndClosed(clientConn)
              THEN c2s
              ELSE [c2s EXCEPT ![clientConn] = Append(@, EncodeRequest(call[k].req))]
    /\ call' = [call EXCEPT ![k].pc = "select", ![k].waited = 0]
    /\ UNCHANGED <<serverVars, files, cstate, via, cside, sside, s2c, logVars, clientConn, closeErr,
                   requestID, responses, slot, rl, serverInfo, fineVars>>

\* c.encoder.Encode(req) failed: the connection is closed on either end
EncodeFail(k) ==
    /\ call[k].pc = "encode"
    /\ cside[clientConn] = "closed" \/ ServerEndClosed(clientConn)
    /\ call' = [call EXCEPT ![k].pc = "defer", ![k].err = "failed to send request"]
    /\ UNCHANGED <<serverVars, files, connVars, logVars, clientConn, closeErr, requestID, responses,
                   slot, rl, serverInfo, fineVars>>

\* case resp := <-respChan
SelectResponse(k) ==
    /\ call[k].pc = "select"
    /\ slot[k] # <<>>
    /\ call' = [call EXCEPT ![k].pc = "defer", ![k].resp = Head(slot[k])]
    /\ slot' = [slot EXCEPT ![k] = Tail(@)]
    /\ UNCHANGED <<serverVars, files, connVars, logVars, clientConn, closeErr, requestID, responses,
                   rl, serverInfo, fineVars>>

\* case <-time.After(30 * time.Second)
SelectTimeout(k) ==
    /\ call[k].pc = "select"
    /\ call[k].waited >= RequestTimeout
    /\ call' = [call EXCEPT ![k].pc = "defer", ![k].err = "request timeout"]
    /\ UNCHANGED <<serverVars, files, connVars, logVars, clientConn, closeErr, requestID, responses,
                   slot, rl, serverInfo, fineVars>>

\* sendRequest without its deferred delete
DeregisterKeepsEntry(k) ==
    /\ call[k].pc = "defer"
    /\ call' = [call EXCEPT ![k].pc = "return"]
    /\ UNCHANGED <<serverVars, files, connVars, logVars, clientConn, closeErr, requestID, responses,
                   slot, rl, serverInfo, fineVars>>

\* a deferred delete that empties the table
DeregisterAll(k) ==
    /\ call[k].pc = "defer"
    /\ responses' = <<>>
    /\ call' = [call EXCEPT ![k].pc = "return"]
    /\ UNCHANGED <<serverVars, files, connVars, logVars, clientConn, closeErr, requestID, slot, rl,
                   serverInfo, fineVars>>

\* the deferred delete(c.responses, req.ID), under c.mu
Deregister(k) ==
    /\ call[k].pc = "defer"
    /\ responses' = [i \in DOMAIN responses \ {call[k].req.ID} |-> responses[i]]
    /\ call' = [call EXCEPT ![k].pc = "return"]
    /\ UNCHANGED <<serverVars, files, connVars, logVars, clientConn, closeErr, requestID, slot, rl,
                   serverInfo, fineVars>>

\* SelectResponse is no step of the client: no channel ever holds a
\* response (ChannelsStayEmpty), so the receive case is never ready
sendRequest(k) ==
    \/ Register(k)
    \/ EncodeOK(k)
    \/ EncodeFail(k)
    \/ SelectTimeout(k)
    \/ Deregister(k)

\* the clock: every timer that runs advances, up to its expiry
Tick ==
    /\ \E k \in Callers : call[k].pc = "select" /\ call[k].waited < RequestTimeout
    /\ call' = [k \in Callers |->
                  IF call[k].pc = "select" /\ call[k].waited + TickSeconds < RequestTimeout
                  THEN [call[k] EXCEPT !.waited = @ + TickSeconds]
                  ELSE IF call[k].pc = "select"
                  THEN [call[k] EXCEPT !.waited = RequestTimeout]
                  ELSE call[k]]
    /\ UNCHANGED <<serverVars, files, connVars, logVars, clientConn, closeErr, requestID, responses,
                   slot, rl, serverInfo, fineVars>>

(***************************************************************************)
(* internal/mcp/client.go: Initialize, ListTools, CallTool after           *)
(* sendRequest has returned                                                *)
(***************************************************************************)
\* json.Marshal(resp.Result) then json.Unmarshal into the typed result: a
\* member the result does not have stays at its zero value
ServerInfoOf(result) ==
    IF result.kind = "initialize" THEN result.serverInfo ELSE [name |-> "", version |-> ""]
ToolsOf(result) == IF result.kind = "tools" THEN result.tools ELSE {}
ContentOf(result) == IF result.kind = "content" THEN result.content ELSE <<>>

Failure(msg) == [NoOutcome EXCEPT !.status = "err", !.err = msg]

\* what the API method returns for sendRequest's (resp, err)
OutcomeOf(api, resp, err) ==
    IF err # "" THEN Failure(err)
    ELSE IF resp.Error.present
    THEN Failure((CASE api = "Initialize" -> "initialize failed: "
                    [] api = "ListTools" -> "list tools failed: "
                    [] OTHER -> "tool call failed: ") \o resp.Error.Message)
    ELSE CASE api = "Initialize" -> [NoOutcome EXCEPT !.status = "ok"]
           [] api = "ListTools" ->
                [NoOutcome EXCEPT !.status = "ok", !.tools = ToolsOf(resp.Result)]
           [] OTHER ->
                IF Len(ContentOf(resp.Result)) > 0 /\ ContentOf(resp.Result)[1].type = "text"
                THEN [NoOutcome EXCEPT !.status = "ok",
                                       !.text = ContentOf(resp.Result)[1].text]
                ELSE Failure("unexpected response format")

\* the API method returns; Initialize stores result.ServerInfo on success
Return(k) ==
    /\ call[k].pc = "return"
    /\ call' = [call EXCEPT ![k].pc = "idle",
                            ![k].out = OutcomeOf(call[k].api, call[k].resp, call[k].err)]
    /\ serverInfo' =
          IF call[k].api = "Initialize" /\ call[k].err = "" /\ ~call[k].resp.Error.present
          THEN ServerInfoOf(call[k].resp.Result)
          ELSE serverInfo
    /\ UNCHANGED <<serverVars, files, connVars, logVars, clientConn, closeErr, requestID, responses,
                   slot, rl, fineVars>>

(***************************************************************************)
(* internal/mcp/client.go: readResponses                                   *)
(***************************************************************************)
\* c.decoder.Decode(&resp) succeeded
ReadLoopDecode ==
    /\ rl.pc = "decode"
    /\ s2c[clientConn] # <<>>
    /\ Head(s2c[clientConn]).tag = "response"
    /\ rl' = [pc |-> "deliver", resp |-> DecodeResponse(Head(s2c[clientConn]))]
    /\ s2c' = [s2c EXCEPT ![clientConn] = Tail(@)]
    /\ UNCHANGED <<serverVars, files, cstate, via, cside, sside, c2s, logVars, clientConn, closeErr,
                   requestID, responses, slot, call, serverInfo, fineVars>>

\* c.decoder.Decode(&resp) failed: the loop returns
ReadLoopReturn ==
    /\ rl.pc = "decode"
    /\ \/ s2c[clientConn] # <<>> /\ Head(s2c[clientConn]).tag # "response"
       \/ s2c[clientConn] = <<>>
            /\ (cside[clientConn] = "closed" \/ ServerEndClosed(clientConn))
    /\ rl' = [NoReadLoop EXCEPT !.pc = "returned"]
    /\ UNCHANGED <<serverVars, files, connVars, logVars, clientConn, closeErr, requestID, responses,
                   slot, call, serverInfo, fineVars>>

\* respChan, exists := c.responses[resp.ID]: the key is the decoded id
Lookup(tbl, id) == id \in DOMAIN tbl

\* the calls in sendRequest whose id has the number of the decoded id
Echoes(resp) ==
    {k \in Callers : /\ call[k].pc \in {"encode", "select", "defer"}
                     /\ resp.ID.t # "nil"
                     /\ resp.ID.v = call[k].req.ID.v}

\* the registered callers a response is for when ids are compared as numbers
Addressees(resp) == {k \in Echoes(resp) : Lookup(responses, call[k].req.ID)}

\* a read loop that finds the entry whose key has the number of the decoded id
ReadLoopDeliverByNumber ==
    /\ rl.pc = "deliver"
    /\ slot' = [k \in Callers |->
                  IF k \in Addressees(rl.resp) /\ Len(slot[k]) < 1
                  THEN Append(slot[k], rl.resp)
                  ELSE slot[k]]
    /\ call' = [k \in Callers |->
                  IF k \in Echoes(rl.resp) /\ ~call[k].echoed
                  THEN [call[k] EXCEPT !.echoed = TRUE, !.echo = rl.resp]
                  ELSE call[k]]
    /\ rl' = [NoReadLoop EXCEPT !.pc = "decode"]
    /\ UNCHANGED <<serverVars, files, connVars, logVars, clientConn, closeErr, requestID, responses,
                   serverInfo, fineVars>>

\* a read loop that finds the entry by the number of the id and sends to
\* its channel whether or not the channel is full
ReadLoopDeliverUnbounded ==
    /\ rl.pc = "deliver"
    /\ slot' = [k \in Callers |->
                  IF k \in Addressees(rl.resp) THEN Append(slot[k], rl.resp) ELSE slot[k]]
    /\ call' = [k \in Callers |->
                  IF k \in Echoes(rl.resp) /\ ~call[k].echoed
                  THEN [call[k] EXCEPT !.echoed = TRUE, !.echo = rl.resp]
                  ELSE call[k]]
    /\ rl' = [NoReadLoop EXCEPT !.pc = "decode"]
    /\ UNCHANGED <<serverVars, files, connVars, logVars, clientConn, closeErr, requestID, responses,
                   serverInfo, fineVars>>

\* under c.mu.RLock: if the id is in c.responses, a send to its channel that
\* does not block (select with default)
ReadLoopDeliver ==
    /\ rl.pc = "deliver"
    /\ slot' = IF Lookup(responses, rl.resp.ID) /\ Len(slot[responses[rl.resp.ID]]) < 1
               THEN [slot EXCEPT ![responses[rl.resp.ID]] = Append(@, rl.resp)]
               ELSE slot
    /\ call' = [k \in Callers |->
                  IF k \in Echoes(rl.resp) /\ ~call[k].echoed
                  THEN [call[k] EXCEPT !.echoed = TRUE, !.echo = rl.resp]
                  ELSE call[k]]
    /\ rl' = [NoReadLoop EXCEPT !.pc = "decode"]
    /\ UNCHANGED <<serverVars, files, connVars, logVars, clientConn, closeErr, requestID, responses,
                   serverInfo, fineVars>>

readResponses == ReadLoopDecode \/ ReadLoopReturn \/ ReadLoopDeliver

\* the keys of c.responses are int64 and a decoded id is a float64 or nil:
\* the lookup finds nothing and no channel is ever sent to
ChannelsStayEmpty == \A k \in Callers : slot[k] = <<>>

(***************************************************************************)
(* The server against raw peers.                                           *)
(***************************************************************************)
NextServer ==
    \/ StartTCP
    \/ \E l \in Listeners, c \in Conns : Accept(l, c)
    \/ \E r \in Registrations : RegisterResource(r)
    \/ \E c \in Conns : handleConnection(c)
    \/ \E p \in Paths, st \in FileStates : FileChange(p, st)
    \/ \E c \in RawConns, l \in Listeners : RawDial(c, l)
    \/ \E c \in RawConns : RawSend(c)
    \/ \E c \in RawConns : RawClose(c)

SpecServer == Init /\ [][NextServer]_vars

(***************************************************************************)
(* The server started and stopped, with a raw peer.                        *)
(***************************************************************************)
NextLife ==
    \/ Start
    \/ StartTCP
    \/ Stop
    \/ \E l \in Listeners : acceptConnections(l)
    \/ \E c \in RawConns : handleConnection(c)
    \/ \E c \in RawConns, l \in Listeners : RawDial(c, l)
    \/ \E c \in RawConns : RawSend(c)
    \/ \E c \in RawConns : RawClose(c)

SpecLife == Init /\ [][NextLife]_vars

(***************************************************************************)
(* The server with two connections: a peer that reads what the server      *)
(* writes, and on the other connection a peer that writes requests and     *)
(* never reads.                                                            *)
(***************************************************************************)
NextConns ==
    \/ StartTCP
    \/ \E c \in Conns : Accept("tcp", c)
    \/ \E c \in Conns : handleConnection(c)
    \/ \E c \in Conns : RawDial(c, "tcp")
    \/ \E c \in Conns : RawSend(c)
    \/ \E c \in Conns : RawClose(c)

SpecConns == Init /\ [][NextConns]_vars

(***************************************************************************)
(* The client against the server.                                          *)
(***************************************************************************)
ClientNext ==
    \/ \E k \in Callers : ListTools(k)
    \/ \E k \in Callers : sendRequest(k)
    \/ \E k \in Callers : Return(k)
    \/ readResponses
    \/ Tick

Next ==
    \/ Start
    \/ \E l \in Listeners : Accept(l, ClientConn)
    \/ handleConnection(ClientConn)
    \/ ConnectUnix
    \/ \E k \in Callers : Initialize(k)
    \/ \E k \in Callers, t \in ToolCalls : CallTool(k, t[1], t[2])
    \/ Close
    \/ ClientNext

Spec == Init /\ [][Next]_vars

(***************************************************************************)
(* The agent's server and client where one caller initializes and the      *)
(* other calls a tool, in any order.                                       *)
(***************************************************************************)
NextFirst ==
    \/ Start
    \/ Accept("unix", ClientConn)
    \/ handleConnection(ClientConn)
    \/ ConnectUnix
    \/ Close
    \/ Initialize("A")
    \/ CallTool("B", "file_operations", FileArgs("write", "a.txt", "hi"))
    \/ \E k \in Callers : sendRequest(k)
    \/ \E k \in Callers : Return(k)
    \/ readResponses
    \/ Tick

SpecFirst == Init /\ [][NextFirst]_vars

(***************************************************************************)
(* The agent's server and a client that closes its connection and connects *)
(* again while its callers go on calling.                                  *)
(***************************************************************************)
NextReconnect ==
    \/ Start
    \/ Accept("unix", ClientConn)
    \/ handleConnection(ClientConn)
    \/ ConnectUnix
    \/ Close
    \/ Reconnect("unix")
    \/ Initialize("A")
    \/ ListTools("B")
    \/ CallTool("B", "file_operations", FileArgs("read", "a.txt", Absent))
    \/ \E k \in Callers : sendRequest(k)
    \/ \E k \in Callers : Return(k)
    \/ readResponses
    \/ Tick

SpecReconnect == Init /\ [][NextReconnect]_vars

(***************************************************************************)
(* The client against a test server that answers as it likes: any id, any  *)
(* order, any number of times, or not at all.                              *)
(***************************************************************************)
PeerIds == {WireNum(i) : i \in 1..Cardinality(Callers)} \cup {WireAbsent}
PeerResponses ==
    {EncodeResponse(MCPResponse(DecodeID(i),
                                [kind |-> "content",
                                 content |-> <<[type |-> "text", text |-> "hi"]>>],
                                NilError)) : i \in PeerIds}

\* the test server listens
PeerListen ==
    /\ lst["tcp"] = "new"
    /\ lst' = [lst EXCEPT !["tcp"] = "listening"]
    /\ UNCHANGED <<clientVars, fineVars, resources, registered, listeners, acc, hc, crashed, files, connVars,
                   logVars>>

\* the test server accepts the client's connection
PeerAccept ==
    /\ cstate[ClientConn] = "backlog"
    /\ cstate' = [cstate EXCEPT ![ClientConn] = "accepted"]
    /\ UNCHANGED <<clientVars, fineVars, serverVars, files, via, cside, sside, c2s, s2c, logVars>>

\* the test server reads a request
PeerRead ==
    /\ cstate[ClientConn] = "accepted"
    /\ sside[ClientConn] = "open"
    /\ c2s[ClientConn] # <<>>
    /\ reqLog' = [reqLog EXCEPT ![ClientConn] =
                     Append(@, DecodeRequest(Head(c2s[ClientConn])).ID)]
    /\ c2s' = [c2s EXCEPT ![ClientConn] = Tail(@)]
    /\ UNCHANGED <<clientVars, fineVars, serverVars, files, cstate, via, cside, sside, s2c, respLog>>

\* the test server writes a response
PeerWrite(w) ==
    /\ cstate[ClientConn] = "accepted"
    /\ sside[ClientConn] = "open"
    /\ cside[ClientConn] = "open"
    /\ Len(respLog[ClientConn]) < MaxPeerWrites
    /\ Len(s2c[ClientConn]) < MaxQueue
    /\ s2c' = [s2c EXCEPT ![ClientConn] = Append(@, w)]
    /\ respLog' = [respLog EXCEPT ![ClientConn] = Append(@, DecodeID(w.id))]
    /\ UNCHANGED <<clientVars, fineVars, serverVars, files, cstate, via, cside, sside, c2s, reqLog>>

\* the test server closes its end of the connection
PeerClose ==
    /\ cstate[ClientConn] = "accepted"
    /\ sside[ClientConn] = "open"
    /\ sside' = [sside EXCEPT ![ClientConn] = "closed"]
    /\ UNCHANGED <<clientVars, fineVars, serverVars, files, cstate, via, cside, c2s, s2c, logVars>>

NextPeer ==
    \/ PeerListen
    \/ PeerAccept
    \/ PeerRead
    \/ \E w \in PeerResponses : PeerWrite(w)
    \/ PeerClose
    \/ ConnectTCP
    \/ ClientNext

SpecPeer == Init /\ [][NextPeer]_vars

\* the client's goroutines keep running: a caller inside sendRequest or back
\* in its API method takes its next step when it can, the read loop reads
\* on, and time passes.  Nothing is assumed of the test server
ClientFairness ==
    /\ \A k \in Callers : WF_vars(sendRequest(k)) /\ WF_vars(Return(k))
    /\ WF_vars(readResponses)
    /\ WF_vars(Tick)

SpecPeerLive == SpecPeer /\ ClientFairness

(***************************************************************************)
(* Properties of the server.                                               *)
(***************************************************************************)
IsPrefix(a, b) == Len(a) <= Len(b) /\ \A i \in 1..Len(a) : a[i] = b[i]

\* the uri handleReadResource looks up: params.uri when params is an object
\* with a string uri, the empty string otherwise
RequestedURI(p) == IF p.kind = "object" /\ IsString(p.uri) THEN p.uri ELSE ""

\* the tool name a tools/call request gives, if it gives one
NamesRegisteredTool(p) == p.kind = "object" /\ p.name \in BuiltinTools

\* the call of caller k has returned from sendRequest
Returned(k) == call[k].n > 0 /\ call[k].pc \in {"return", "idle"}

\* the calls other than k's that are registered in the pending-call table
OthersPending(k) ==
    {j \in Callers \ {k} : call[j].pc \in {"encode", "select", "defer"}}

\* the server read two requests with distinct ids and wrote one response
\* for each, the second request's first, and the client has decoded both
\* while both calls were in sendRequest
AnsweredInOppositeOrder ==
    LET reqs == reqLog[ClientConn]
        resps == respLog[ClientConn]
    IN  /\ Len(reqs) = 2
        /\ reqs[1] # reqs[2]
        /\ resps = <<reqs[2], reqs[1]>>
        /\ s2c[ClientConn] = <<>>
        /\ rl.pc = "decode"
        /\ \A k \in Callers : call[k].echoed

\* C1: when two calls with distinct ids are pending together and their
\* responses arrive in the opposite order, each call is handed the response
\* with its own id: while it waits the response is in its channel, and once
\* it has left the select it holds that response and no error.
C1_EachCallGetsItsOwnResponse ==
    AnsweredInOppositeOrder
        => \A k \in Callers :
               /\ call[k].pc = "select" => slot[k] = <<call[k].echo>>
               /\ (call[k].pc = "defer" \/ Returned(k))
                    => call[k].err = "" /\ call[k].resp = call[k].echo

\* C2: the id the read loop decodes from a response that echoes the id of a
\* registered call equals the key the call was registered under, and the
\* lookup in the pending-call table finds that call.
C2_IdSurvivesRoundTrip ==
    rl.pc = "deliver"
        => \A k \in Echoes(rl.resp) :
               Lookup(responses, call[k].req.ID)
                   => /\ rl.resp.ID = call[k].req.ID
                      /\ Lookup(responses, rl.resp.ID)
                      /\ responses[rl.resp.ID] = k

\* C3: a call whose request was sent to a server that has written nothing
\* returns only when its 30 seconds have elapsed, returns the timeout
\* failure, and leaves no entry for its id in the pending-call table, which
\* holds the calls of the other callers and nothing else.
C3_TimeoutLeavesNoEntry ==
    \A k \in Callers :
        (/\ Returned(k)
         /\ respLog[ClientConn] = <<>>
         /\ call[k].err # "failed to send request")
            => /\ call[k].err = "request timeout"
               /\ call[k].resp = ZeroResponse
               /\ call[k].waited = RequestTimeout
               /\ call[k].pc = "idle" => call[k].out = Failure("request timeout")
               /\ ~Lookup(responses, call[k].req.ID)
               /\ Cardinality(DOMAIN responses) = Cardinality(OthersPending(k))

C3_Witness ==
    \E k \in Callers :
        /\ call[k].pc = "idle"
        /\ call[k].out = Failure("request timeout")
        /\ Len(reqLog[ClientConn]) > 0
        /\ reqLog[ClientConn][1] = Float64(call[k].req.ID.v)
        /\ respLog[ClientConn] = <<>>
        /\ responses = <<>>

\* C8: a tools/call that the tool executes without error is answered with
\* a result of one content item of type "text" and no error, and the
\* client's CallTool returns the text of that item to its caller.
C8_CallToolReturnsToolText ==
    /\ \A c \in Conns :
           (/\ hc[c].pc = "encode"
            /\ hc[c].req.Method = "tools/call"
            /\ ~hc[c].resp.Error.present)
               => /\ hc[c].resp.Result.kind = "content"
                  /\ Len(hc[c].resp.Result.content) = 1
                  /\ hc[c].resp.Result.content[1].type = "text"
    /\ \A k \in Callers :
           (/\ call[k].api = "CallTool"
            /\ call[k].pc = "idle"
            /\ call[k].echoed
            /\ ~call[k].echo.Error.present
            /\ call[k].echo.Result.kind = "content")
               => call[k].out = [NoOutcome EXCEPT
                                   !.status = "ok",
                                   !.text = call[k].echo.Result.content[1].text]

\* C4: the response produced for a request with a recognized method, be it
\* a result or an error, carries the request's id, in the server and as a
\* peer decodes it from the wire.
C4_ResponseEchoesRequestID ==
    \A c \in Conns :
        (hc[c].pc = "encode" /\ hc[c].req.Method \in Methods)
            => /\ hc[c].resp.ID = hc[c].req.ID
               /\ DecodeID(EncodeResponse(hc[c].resp).id) = hc[c].req.ID

C4_Witness ==
    \E c \in Conns :
        /\ hc[c].pc = "encode"
        /\ hc[c].req.Method = "resources/read"
        /\ hc[c].req.ID = Float64(2)
        /\ hc[c].resp.Error.present

\* C5: on a connection the ids of the responses written are a prefix of the
\* ids of the requests read, at most one request is unanswered, and none is
\* unanswered when the task is about to read: each request is answered once,
\* before the next is read, in order, and nothing is written unasked.
C5_OneResponsePerRequestInOrder ==
    \A c \in Conns :
        /\ IsPrefix(respLog[c], reqLog[c])
        /\ Len(reqLog[c]) <= Len(respLog[c]) + 1
        /\ hc[c].pc = "decode" => Len(respLog[c]) = Len(reqLog[c])

C5_Witness ==
    \E c \in Conns :
        /\ Len(respLog[c]) = 2
        /\ respLog[c] = reqLog[c]
        /\ respLog[c][1] # respLog[c][2]

\* C6: while the response to a request with an unrecognized method waits to
\* be written it is the error -32601 "Method not found", the connection is
\* open, and the task leaves its loop only if the peer has closed the
\* connection: otherwise it goes on to read the next request.
C6_UnknownMethod ==
    [][\A c \in Conns :
          (hc[c].pc = "encode" /\ hc[c].req.Method \notin Methods)
              => /\ hc[c].resp.Error = MCPError(MethodNotFound, "Method not found")
                 /\ hc[c].resp.Result = NilResult
                 /\ sside[c] = "open"
                 /\ hc'[c].pc \in {"encode", "decode"} \/ cside[c] = "closed"
                 /\ sside'[c] = "open" \/ cside[c] = "closed"]_vars

C6_Witness ==
    \E c \in Conns :
        /\ hc[c].last = "unknown"
        /\ hc[c].pc = "encode"
        /\ hc[c].req.Method = "tools/list"
        /\ ~hc[c].resp.Error.present

\* C7: a tools/call that names no registered tool (params missing, not an
\* object, without a name, or with an unregistered name) is answered with
\* an error of code -32602 and no result, and never panics.
C7_UnknownToolIsInvalidParams ==
    \A c \in Conns :
        (hc[c].req.Method = "tools/call" /\ ~NamesRegisteredTool(hc[c].req.Params))
            => /\ hc[c].pc # "panic"
               /\ hc[c].pc = "encode"
                    => /\ hc[c].resp.Error.present
                       /\ hc[c].resp.Error.Code = InvalidParams
                       /\ hc[c].resp.Result = NilResult

C7_Witness ==
    \E c \in Conns :
        /\ hc[c].pc = "encode"
        /\ hc[c].req.Method = "tools/call"
        /\ hc[c].req.Params = NoParams
        /\ hc[c].resp.Error = MCPError(InvalidParams, "Tool execution failed: tool  not found")

\* C9: a resources/read of a registered uri whose mime type is not text is
\* answered with -32602 "Unsupported resource type" and reads no file.
C9_NonTextIsUnsupported ==
    [][\A c \in Conns :
          (/\ hc[c].pc = "decode"
           /\ hc'[c].pc = "encode"
           /\ hc'[c].req.Method = "resources/read"
           /\ RequestedURI(hc'[c].req.Params) \in DOMAIN resources
           /\ resources[RequestedURI(hc'[c].req.Params)].MimeType # "text/plain")
              => /\ hc'[c].resp.Error = MCPError(InvalidParams, "Unsupported resource type")
                 /\ ~hc'[c].read]_vars

\* C10: a resources/read of a uri that is not in the resource table when it
\* is looked up is answered with -32602 "Resource not found", reads no file
\* and leaves the connection open with the task in its loop.
C10_MissingResource ==
    [][\A c \in Conns :
          (/\ hc[c].pc = "decode"
           /\ hc'[c].pc \in {"encode", "done", "panic"}
           /\ hc'[c].req.Method = "resources/read"
           /\ RequestedURI(hc'[c].req.Params) \notin DOMAIN resources)
              => /\ hc'[c].pc = "encode"
                 /\ hc'[c].resp.Error = MCPError(InvalidParams, "Resource not found")
                 /\ hc'[c].resp.Result = NilResult
                 /\ ~hc'[c].read
                 /\ sside'[c] = "open"]_vars

C10_Witness ==
    \E c \in Conns :
        /\ hc[c].pc = "encode"
        /\ hc[c].req.Method = "resources/read"
        /\ hc[c].req.Params = NoParams
        /\ hc[c].resp.Error.Message = "Resource not found"

\* C11: a resources/read of a registered text/plain uri whose file can be
\* read is answered with one contents item carrying the descriptor's uri and
\* mime type and, as text, the file's content at the time of the read, in
\* the server's response and in the JSON written for it.
C11_TextResourceReadUnmodified ==
    [][\A c \in Conns :
          (/\ hc[c].pc = "decode"
           /\ hc'[c].pc = "encode"
           /\ hc'[c].req.Method = "resources/read"
           /\ RequestedURI(hc'[c].req.Params) \in DOMAIN resources
           /\ resources[RequestedURI(hc'[c].req.Params)].MimeType = "text/plain"
           /\ ReadFile(files, RequestedURI(hc'[c].req.Params)) # Missing)
              => LET uri == RequestedURI(hc'[c].req.Params)
                     contents == <<[uri |-> resources[uri].URI,
                                    mimeType |-> resources[uri].MimeType,
                                    text |-> ReadFile(files, uri)]>>
                 IN  /\ hc'[c].resp.Error = NilError
                     /\ hc'[c].resp.Result = [kind |-> "contents", contents |-> contents]
                     /\ EncodeResponse(hc'[c].resp).result
                            = [kind |-> "contents", contents |-> contents]]_vars

\* C12: the resource table holds, for each uri registered so far, the
\* descriptor of its latest registration (the descriptor registered last is
\* its uri's entry, a registration leaves the other entries, and nothing
\* else changes the table), and
\* resources/list is answered without error with exactly the descriptors of
\* the table, one for each uri, an empty collection when there are none.
C12_ListIsTheLatestRegistrations ==
    [][/\ registered' # NoResource
             => /\ registered'.URI \in DOMAIN resources'
                /\ resources'[registered'.URI] = registered'
       /\ registered' = registered => resources' = resources
       /\ DOMAIN resources \subseteq DOMAIN resources'
       /\ \A u \in DOMAIN resources' \ {registered'.URI} :
             u \in DOMAIN resources /\ resources'[u] = resources[u]
       /\ \A c \in Conns :
             (/\ hc[c].pc = "decode"
              /\ hc'[c].pc \in {"encode", "done", "panic"}
              /\ hc'[c].req.Method = "resources/list")
                 => /\ hc'[c].pc = "encode"
                    /\ hc'[c].resp.Error = NilError
                    /\ hc'[c].resp.Result.kind = "resources"
                    /\ hc'[c].resp.Result.resources = {resources[u] : u \in DOMAIN resources}
                    /\ Cardinality(hc'[c].resp.Result.resources)
                           = Cardinality(DOMAIN resources)
                    /\ EncodeResponse(hc'[c].resp).result = hc'[c].resp.Result]_vars

C12_Witness ==
    \E c \in Conns :
        /\ hc[c].pc = "encode"
        /\ hc[c].req.Method = "resources/list"
        /\ hc[c].resp.Result.kind = "resources"
        /\ Cardinality(hc[c].resp.Result.resources) = 2
        /\ \E d \in hc[c].resp.Result.resources :
               d.URI = "a.txt" /\ d.MimeType = "application/json"

\* the result every initialize returns
InitializeResult ==
    [kind |-> "initialize", protocolVersion |-> ProtocolVersion,
     capabilities |-> Capabilities,
     serverInfo |-> [name |-> ServerName, version |-> ServerVersion]]

\* C13: every initialize request, whatever its params and whatever was
\* handled on the connection before it, is answered without error with the
\* same protocol version, capabilities and server identity, and handling it
\* changes neither the resource table, the listeners nor the files.
C13_InitializeIsIdempotent ==
    [][\A c \in Conns :
          (/\ hc[c].pc = "decode"
           /\ hc'[c].pc \in {"encode", "done", "panic"}
           /\ hc'[c].req.Method = "initialize")
              => /\ hc'[c].pc = "encode"
                 /\ hc'[c].resp.Error = NilError
                 /\ hc'[c].resp.Result = InitializeResult
                 /\ EncodeResponse(hc'[c].resp).result = InitializeResult
                 /\ resources' = resources
                 /\ listeners' = listeners
                 /\ lst' = lst
                 /\ acc' = acc
                 /\ files' = files]_vars

C13_Witness ==
    \E c \in Conns :
        /\ hc[c].pc = "encode"
        /\ hc[c].req.Method = "initialize"
        /\ hc[c].req.Params = NoParams
        /\ hc[c].last = "known"
        /\ Len(reqLog[c]) = 2
        /\ hc[c].resp.Result = InitializeResult
        /\ resources # <<>>

\* C14: the answer to a request is the one its handler gives for the
\* request, the tool registry, the resource table and the files, whether or
\* not an initialize was handled on the connection before: the first request
\* of a connection is dispatched like any other.  And a connected client
\* whose caller is idle can start ListTools and CallTool whether or not
\* Initialize was called.
C14_NoMethodIsGated ==
    [][/\ \A c \in Conns :
             (hc[c].pc = "decode" /\ hc'[c].pc \in {"encode", "panic"})
                 => \E o \in handleRequest(hc'[c].req, BuiltinTools, resources, files) :
                        \/ o.status = "panic" /\ hc'[c].pc = "panic"
                        \/ /\ o.status = "ok"
                           /\ hc'[c].pc = "encode"
                           /\ hc'[c].resp = o.resp
                           /\ files' = o.fs
       /\ \A k \in Callers :
             (clientConn # "nil" /\ call[k].pc = "idle" /\ requestID < MaxCalls)
                 => /\ ENABLED ListTools(k)
                    /\ \A t \in ToolCalls : ENABLED CallTool(k, t[1], t[2])]_vars

C14_Witness ==
    /\ hc[ClientConn].pc = "encode"
    /\ Len(reqLog[ClientConn]) = 1
    /\ hc[ClientConn].req.Method = "tools/call"
    /\ hc[ClientConn].resp.Error = NilError
    /\ hc[ClientConn].resp.Result.kind = "content"
    /\ serverInfo = [name |-> "", version |-> ""]
    /\ \A k \in Callers : call[k].api # "Initialize"

\* C15: the server's initialize result has its name and version and the
\* capabilities tools, resources and not prompts; an Initialize whose call
\* the server answered with that result while it was pending returns success
\* and the client then stores the server's name and version; and the stored
\* identity is never anything but the initial one or the server's.
C15_InitializeStoresServerIdentity ==
    /\ \A c \in Conns :
           (hc[c].pc = "encode" /\ hc[c].req.Method = "initialize")
               => /\ hc[c].resp.Result.kind = "initialize"
                  /\ hc[c].resp.Result.serverInfo
                         = [name |-> ServerName, version |-> ServerVersion]
                  /\ hc[c].resp.Result.capabilities
                         = [tools |-> TRUE, resources |-> TRUE, prompts |-> FALSE]
    /\ \A k \in Callers :
           (/\ call[k].api = "Initialize"
            /\ call[k].pc = "idle"
            /\ call[k].echoed
            /\ ~call[k].echo.Error.present)
               => /\ call[k].out.status = "ok"
                  /\ serverInfo = [name |-> ServerName, version |-> ServerVersion]
    /\ serverInfo \in {[name |-> "", version |-> ""],
                       [name |-> ServerName, version |-> ServerVersion]}

\* C16: when the Decode of a handling task fails (the value is malformed or
\* the stream has ended) the task leaves its loop, writes nothing for that
\* input, and closes its end of the connection, and it writes nothing later;
\* the listeners, the accepting tasks and the other connections' tasks are
\* as before and the process goes on.
C16_DecodeFailureEndsTheConnection ==
    [][\A c \in Conns :
          /\ (hc[c].pc = "decode" /\ hc'[c].pc = "done")
                => /\ sside'[c] = "closed"
                   /\ respLog' = respLog
                   /\ s2c' = s2c
                   /\ reqLog' = reqLog
                   /\ lst' = lst
                   /\ listeners' = listeners
                   /\ acc' = acc
                   /\ ~crashed'
                   /\ \A d \in Conns \ {c} : hc'[d] = hc[d] /\ sside'[d] = sside[d]
          /\ hc[c].pc = "done"
                => /\ hc'[c].pc = "done"
                   /\ sside'[c] = "closed"
                   /\ respLog'[c] = respLog[c]]_vars

C16_Witness ==
    \E c \in Conns :
        /\ hc[c].pc = "done"
        /\ sside[c] = "closed"
        /\ cside[c] = "open"
        /\ Len(reqLog[c]) = 1
        /\ Len(respLog[c]) = 1
        /\ lst[via[c]] = "listening"
        /\ acc[via[c]] = "running"
        /\ ~crashed

\* C17: whatever the tasks of the other connections are doing, a request
\* waiting on an accepted connection whose task is at its Decode is read and
\* dispatched, a response whose connection has room is written, and a
\* connection waiting at a listening socket is accepted.
C17_ConnectionsAreIndependent ==
    \A c \in Conns :
           /\ (cstate[c] = "accepted" /\ hc[c].pc = "decode" /\ c2s[c] # <<>>)
                 => ENABLED (ServerDecode(c) \/ ServerDecodeFail(c))
           /\ (hc[c].pc = "encode" /\ (c \in RawConns \/ Len(s2c[c]) < MaxQueue))
                 => ENABLED ServerEncode(c)
           /\ (cstate[c] = "backlog" /\ lst[via[c]] = "listening" /\ acc[via[c]] = "running")
                 => ENABLED Accept(via[c], c)

\* C18: every Close returns success, the first and any later one; a Close
\* of a connection that is closed already changes nothing; and once the
\* client's end is closed a read loop that is reading sees its Decode fail
\* and returns.
C18_CloseIsIdempotent ==
    [][/\ closeErr' \in {"none", "nil"}
       /\ (clientConn # "nil" /\ cside[clientConn] = "closed")
             => /\ cside' = cside
                /\ rl.pc = "decode" /\ s2c[clientConn] = <<>> => ENABLED ReadLoopReturn]_vars

\* the listeners of s.listeners
Registered == {listeners[i] : i \in DOMAIN listeners}

\* C19: a step that empties the listener list closes every listener that was
\* on it and leaves every connection, its handler and its streams as they
\* were; a listener is listening exactly while it is on the list; a
\* connection is accepted only from a listening listener, and the accept loop
\* of a closed listener can only return; a connection accepted from a
\* listener that is closed now is still read from while the process runs;
\* and Stop can be called again.
C19_StopClosesListenersOnly ==
    [][/\ (listeners # <<>> /\ listeners' = <<>>)
            => /\ \A l \in Registered : lst'[l] = "closed"
               /\ UNCHANGED <<hc, connVars, logVars>>
       /\ \A l \in Listeners : lst'[l] = "listening" <=> l \in {listeners'[i] : i \in DOMAIN listeners'}
       /\ \A c \in Conns : (cstate[c] = "backlog" /\ cstate'[c] = "accepted")
                               => lst[via[c]] = "listening"
       /\ \A l \in Listeners : (lst'[l] = "closed" /\ ~crashed')
                                  => /\ \A c \in Conns : ~(ENABLED Accept(l, c))'
                                     /\ acc'[l] = "running" => (ENABLED AcceptReturn(l))'
       /\ \A c \in RawConns : (/\ cstate[c] = "accepted" /\ lst[via[c]] = "closed"
                               /\ hc[c].pc = "decode" /\ c2s[c] # <<>> /\ ~crashed)
                                 => ENABLED handleConnection(c)
       /\ ~crashed' => (ENABLED Stop)']_vars

\* a request of a connection is being answered after the listener that
\* accepted the connection was closed, its accept loop has returned, and the list is empty
C19_Witness ==
    /\ listeners = <<>>
    /\ \E c \in RawConns :
          /\ cstate[c] = "accepted"
          /\ lst[via[c]] = "closed"
          /\ acc[via[c]] = "returned"
          /\ hc[c].pc = "encode"
          /\ sside[c] = "open"

\* a value on the wire has a result member, an error member
HasResult(w) == w.result.kind # "nil"
HasError(w) == w.error.present
ExactlyOneOfResultAndError(w) == HasResult(w) # HasError(w)

\* C20: the response a handler has built and encoder.Encode is about to
\* write has exactly one of result and error on the wire, whatever the
\* method and the outcome; so has the answer to tools/list of a server that
\* has no tool.
C20_ExactlyOneOfResultAndError ==
    \A c \in Conns :
        hc[c].pc = "encode" =>
            /\ ExactlyOneOfResultAndError(EncodeResponse(hc[c].resp))
            /\ \A o \in handleListTools(hc[c].req, {}, files) :
                  ExactlyOneOfResultAndError(EncodeResponse(o.resp))

\* the empty text of a tool is about to be written as a result, by a server
\* that has no resource registered
C20_Witness ==
    \E c \in RawConns :
        /\ DOMAIN resources = {}
        /\ hc[c].pc = "encode"
        /\ hc[c].req.Method = "tools/call"
        /\ HasResult(EncodeResponse(hc[c].resp))
        /\ hc[c].resp.Result.kind = "content"
        /\ hc[c].resp.Result.content[1].text = ""
        /\ ~hc[c].resp.Error.present

(***************************************************************************)
(* Properties of tools/list and of the client's calls.                     *)
(***************************************************************************)
\* the descriptor tools/list gives for the tool registered under a name
DescriptorOf(n) ==
    [name |-> n, description |-> ToolDescription(n), inputSchema |-> ToolParameters(n)]

\* C21: the response to a tools/list request has no
\* error and a result whose tools are the descriptors of the registered
\* tools, one for each and no others, with the registry's name, description
\* and schema, in the server and on the wire; and for every registry the
\* handler lists exactly the tools of that registry.
C21_ListToolsIsTheRegistry ==
    \A c \in Conns :
        (hc[c].pc = "encode" /\ hc[c].req.Method = "tools/list")
            => /\ hc[c].resp.Error = NilError
               /\ hc[c].resp.Result.kind = "tools"
               /\ hc[c].resp.Result.tools = {DescriptorOf(n) : n \in BuiltinTools}
               /\ Cardinality(hc[c].resp.Result.tools) = Cardinality(BuiltinTools)
               /\ EncodeResponse(hc[c].resp).result.tools
                     = {DescriptorOf(n) : n \in BuiltinTools}
               /\ ~EncodeResponse(hc[c].resp).error.present
               /\ \A reg \in SUBSET BuiltinTools :
                     \A o \in handleListTools(hc[c].req, reg, files) :
                         /\ o.status = "ok"
                         /\ o.resp.Result.tools = {DescriptorOf(n) : n \in reg}

\* a tools/list request, the second of its connection, is being answered
C21_Witness ==
    \E c \in RawConns :
        /\ hc[c].pc = "encode"
        /\ hc[c].req.Method = "tools/list"
        /\ Len(reqLog[c]) = 2
        /\ Cardinality(hc[c].resp.Result.tools) = 4
        /\ hc[c].resp.Result.kind = "tools"
        /\ \E t \in hc[c].resp.Result.tools : t.name = "code_search"

\* the request of caller k's call is on the connection or the server has it
OnTheWire(k) ==
    \/ \E i \in DOMAIN c2s[ClientConn] :
          /\ c2s[ClientConn][i].tag = "request"
          /\ c2s[ClientConn][i].id = EncodeRequestID(call[k].req.ID)
    \/ \E i \in DOMAIN reqLog[ClientConn] :
          reqLog[ClientConn][i] = DecodeID(EncodeRequestID(call[k].req.ID))

\* C22: a call that has not yet registered has written nothing: its request
\* is neither on the connection nor with the server; the step that writes
\* the request is taken with the call's entry in the pending-call table, under
\* the call's id and for the call's channel; and the entry is there as long
\* as the call is between its registration and its deferred delete, so also
\* whenever the read loop holds a response that echoes the call's id.
C22_RegisteredBeforeSent ==
    [][\A k \in Callers :
          /\ call[k].pc = "register" => ~OnTheWire(k)
          /\ (call[k].pc = "encode" /\ call'[k].pc = "select")
                => /\ Lookup(responses, call[k].req.ID)
                   /\ responses[call[k].req.ID] = k
                   /\ slot[k] = <<>>
          /\ call'[k].pc \in {"encode", "select", "defer"}
                => /\ Lookup(responses', call'[k].req.ID)
                   /\ responses'[call'[k].req.ID] = k
          /\ ((rl.pc = "deliver" /\ k \in Echoes(rl.resp))
                => Lookup(responses, call[k].req.ID))']_vars

\* the server's response to a call is with the read loop while the call
\* waits in its select, and the call's entry exists
C22_Witness ==
    \E k \in Callers :
        /\ call[k].pc = "select"
        /\ OnTheWire(k)
        /\ rl.pc = "deliver"
        /\ k \in Echoes(rl.resp)
        /\ Lookup(responses, call[k].req.ID)

\* the call of caller k is leaving sendRequest with the timeout failure
TimedOut(k) == call[k].pc \in {"defer", "return"} /\ call[k].err = "request timeout"

\* C23: the entry of a call leaves the pending-call table in one step only,
\* the call's own deferred delete, which finds the entry present; a read
\* loop step that handles a response echoing the id of a call that is leaving
\* with the timeout failure places nothing in that call's channel; a call
\* that leaves with the timeout failure has an empty channel; and a call
\* whose channel holds a response is still on its way to receive it.
C23_OnePathObservesTheEntry ==
    [][\A k \in Callers :
          /\ (Lookup(responses, call[k].req.ID) /\ ~Lookup(responses', call[k].req.ID))
                => call[k].pc = "defer" /\ call'[k].pc = "return"
          /\ call[k].pc = "defer"
                => /\ Lookup(responses, call[k].req.ID)
                   /\ responses[call[k].req.ID] = k
          /\ (rl.pc = "deliver" /\ rl'.pc = "decode" /\ k \in Echoes(rl.resp) /\ TimedOut(k))
                => slot'[k] = slot[k]
          /\ (TimedOut(k) => slot[k] = <<>>)'
          /\ (slot[k] # <<>> => call[k].pc \in {"encode", "select"})']_vars

\* the response to a call is with the read loop when the call's timer has
\* just fired: the call is on its way out with the timeout failure and its
\* entry is still in the table
C23_Witness ==
    \E k \in Callers :
        /\ call[k].pc = "defer"
        /\ call[k].err = "request timeout"
        /\ Lookup(responses, call[k].req.ID)
        /\ rl.pc = "deliver"
        /\ k \in Echoes(rl.resp)

\* C24: no channel ever holds more than one response; a call that holds a
\* response holds the first one that echoed its id, and its channel is
\* empty; and the read loop is never blocked with a response in hand: its
\* delivery step can be taken whatever the channels hold.
C24_AtMostOneResponsePerId ==
    /\ \A k \in Callers :
          /\ Len(slot[k]) <= 1
          /\ call[k].resp # ZeroResponse
                => call[k].echoed /\ call[k].resp = call[k].echo /\ slot[k] = <<>>
    /\ rl.pc = "deliver" => ENABLED ReadLoopDeliver

\* the test server has written two responses with the id of a call that is
\* waiting, the read loop has handled both and is back at its Decode
C24_Witness ==
    \E k \in Callers :
        /\ call[k].pc = "select"
        /\ call[k].echoed
        /\ Len(respLog[ClientConn]) = 2
        /\ respLog[ClientConn][1] = respLog[ClientConn][2]
        /\ respLog[ClientConn][1] = Float64(call[k].req.ID.v)
        /\ s2c[ClientConn] = <<>>
        /\ rl.pc = "decode"
        /\ Len(slot[k]) <= 1

\* the response the read loop holds is the second one the test server wrote,
\* and the first one had no id
SecondAfterNoId ==
    /\ rl.pc = "deliver"
    /\ s2c[ClientConn] = <<>>
    /\ Len(respLog[ClientConn]) = 2
    /\ respLog[ClientConn][1] = NilID

\* C25: a read loop step that handles a response whose id is no key of the
\* pending-call table changes no channel and no call's response or error,
\* and takes the loop back to its Decode; and the response that follows a
\* response without id, when it echoes the id of a call that is waiting with
\* an empty channel, is then placed in that call's channel.
C25_UnmatchedResponseIsDiscarded ==
    [][/\ (rl.pc = "deliver" /\ rl' # rl /\ ~Lookup(responses, rl.resp.ID))
             => /\ rl'.pc = "decode"
                /\ slot' = slot
                /\ \A k \in Callers : /\ call'[k].resp = call[k].resp
                                      /\ call'[k].err = call[k].err
                                      /\ call'[k].pc = call[k].pc
       /\ \A k \in Callers :
             (/\ SecondAfterNoId
              /\ rl' # rl
              /\ k \in Echoes(rl.resp)
              /\ call[k].pc = "select"
              /\ slot[k] = <<>>)
                => slot'[k] = <<rl.resp>>]_vars

\* C26: c.requestID never decreases; a step that gives a caller a new
\* request gives it the id requestID + 1, which is larger than the id of
\* every call made so far, and advances the counter to it; no id a caller
\* holds exceeds the counter; two callers never hold the same id, whether
\* their calls are outstanding or finished; and a step that starts a read
\* loop (a connect, the first or a later one) leaves the counter as it is.
C26_RequestIdsNeverRepeat ==
    [][/\ requestID' >= requestID
       /\ \A k \in Callers :
             call'[k].req # call[k].req
                => /\ requestID' = requestID + 1
                   /\ call'[k].req.ID = Int64(requestID')
                   /\ \A j \in Callers : call[j].req.ID.v < requestID'
       /\ \A k \in Callers : call'[k].req.ID.v <= requestID'
       /\ \A k, j \in Callers :
             (k # j /\ call'[k].n > 0 /\ call'[j].n > 0)
                => call'[k].req.ID # call'[j].req.ID
       /\ (rl.pc \in {"none", "returned"} /\ rl'.pc = "decode")
             => requestID' = requestID]_vars

\* a call made before the client connected again was answered on the old
\* connection, and on the new connection the server has answered only the
\* call with the next id
C26_Witness ==
    \E k, j \in Callers :
        /\ call[j].n > 0
        /\ call[j].req.ID = Int64(1)
        /\ call[j].echoed
        /\ call[k].req.ID = Int64(2)
        /\ call[k].pc = "select"
        /\ respLog[ClientConn] = <<Float64(2)>>
        /\ requestID = 2

\* C27: two callers are never both at the Encode of their request, the
\* encode and write of sendRequest.
C27_SendsAreSerialized ==
    \A k, j \in Callers : k # j => ~(call[k].pc = "encode" /\ call[j].pc = "encode")

\* C28: a call that has entered sendRequest is eventually back with its
\* caller, with a result or with a failure; and the send failure is returned
\* by a call whose timer never ran.
C28_EveryCallReturns ==
    /\ \A k \in Callers :
          (call[k].pc = "register")
              ~> (call[k].pc = "idle" /\ call[k].out.status \in {"ok", "err"})
    /\ [](\A k \in Callers : call[k].err = "failed to send request" => call[k].waited = 0)

\* the callers whose call has registered and has not yet run its deferred delete
Registering == {k \in Callers : call[k].pc \in {"encode", "select", "defer"}}

\* C29: a key enters the pending-call table only in the registering step of
\* the call whose id it is, and leaves it only in the deferred delete of that
\* same call; after every step the keys are exactly the ids of the calls
\* that have registered and not yet returned, each entry is its call's
\* channel, and no call that has returned has an entry.
C29_TableIsThePendingCalls ==
    [][/\ \A id \in DOMAIN responses' \ DOMAIN responses :
             \E k \in Callers : /\ call[k].pc = "register" /\ call'[k].pc = "encode"
                                /\ id = call[k].req.ID
                                /\ responses'[id] = k
       /\ \A id \in DOMAIN responses \ DOMAIN responses' :
             \E k \in Callers : /\ call[k].pc = "defer" /\ call'[k].pc = "return"
                                /\ id = call[k].req.ID
                                /\ responses[id] = k
       /\ DOMAIN responses' = {call'[k].req.ID : k \in Registering'}
       /\ \A k \in Registering' : responses'[call'[k].req.ID] = k
       /\ \A k \in Callers :
             (call'[k].n > 0 /\ call'[k].pc \in {"return", "idle"})
                => ~Lookup(responses', call'[k].req.ID)]_vars

\* one call has returned with the timeout failure while the other waits:
\* the table holds the waiting call's id and nothing else
C29_Witness ==
    \E k, j \in Callers :
        /\ call[k].pc = "select"
        /\ call[j].n > 0
        /\ call[j].pc = "idle"
        /\ call[j].out.err = "request timeout"
        /\ DOMAIN responses = {call[k].req.ID}

\* some call other than j's has returned or is returning the timeout failure
AnotherTimedOut(j) ==
    \E k \in Callers \ {j} : call[k].n > 0 /\ call[k].err = "request timeout"

\* the server has read the request of caller j's call
ReadByServer(j) ==
    \E i \in DOMAIN reqLog[ClientConn] :
        reqLog[ClientConn][i] = DecodeID(EncodeRequestID(call[j].req.ID))

\* C30: the step in which a call's timer fires, and the deferred delete of a
\* call that timed out, leave every other call, its channel and its entry in
\* the pending-call table as they were and do not touch the read loop; and
\* after a call has timed out, a response that echoes the id of another call
\* whose request the server has read, and which is waiting with an empty
\* channel, is placed in that call's channel.
C30_TimeoutIsLocal ==
    [][/\ \A k \in Callers :
             (\/ call[k].pc = "select" /\ call'[k].pc = "defer"
              \/ call[k].pc = "defer" /\ call'[k].pc = "return"
                    /\ call[k].err = "request timeout")
                => /\ \A j \in Callers \ {k} :
                         /\ call'[j] = call[j]
                         /\ slot'[j] = slot[j]
                         /\ Lookup(responses, call[j].req.ID)
                               => /\ Lookup(responses', call[j].req.ID)
                                  /\ responses'[call[j].req.ID] = responses[call[j].req.ID]
                   /\ rl' = rl
       /\ \A j \in Callers :
             (/\ AnotherTimedOut(j)
              /\ ReadByServer(j)
              /\ rl.pc = "deliver"
              /\ rl' # rl
              /\ j \in Echoes(rl.resp)
              /\ call[j].pc = "select"
              /\ slot[j] = <<>>)
                => slot'[j] = <<rl.resp>>]_vars

(***************************************************************************)
(* Properties of errors, locks, snapshots and read loops.                  *)
(***************************************************************************)
\* the text an API method puts before the message of the server's error
FailurePrefix(api) ==
    CASE api = "Initialize" -> "initialize failed: "
      [] api = "ListTools" -> "list tools failed: "
      [] OTHER -> "tool call failed: "

\* C31: a call that the server answered while it was pending, the answer
\* having been decoded by the read loop, returns to its caller what the
\* answer was: a failure with the server's error message when the answer
\* was an error, and success when it was a result.
C31_ErrorOrResultReachesTheCaller ==
    \A k \in Callers :
        (call[k].pc = "idle" /\ call[k].n > 0 /\ call[k].echoed)
            => IF call[k].echo.Error.present
               THEN call[k].out
                       = Failure(FailurePrefix(call[k].api) \o call[k].echo.Error.Message)
               ELSE call[k].out.status = "ok"

\* the message of the error os.ReadFile returns for a file that is not there
NoSuchFile(path) == "open " \o path \o ": no such file or directory"

\* the request in hand reads a registered text/plain resource whose file
\* cannot be read
ReadsUnreadableText(req) ==
    /\ req.Method = "resources/read"
    /\ RequestedURI(req.Params) \in DOMAIN resources
    /\ resources[RequestedURI(req.Params)].MimeType = "text/plain"
    /\ ReadFile(files, resources[RequestedURI(req.Params)].URI) = Missing

\* C32: when the handler of a connection takes up a tools/call that names a
\* registered tool and answers it with an error, the error is -32602 with
\* the message "Tool execution failed: " followed by the error one of the
\* tool's executions returned, there is no result and the id is the
\* request's; when it takes up a resources/read of a registered text/plain
\* uri whose file cannot be read, the answer is -32602 with the message
\* "Failed to read resource: " followed by the error of the read, no result
\* and the request's id; in both cases the connection stays open, the
\* process runs on and the listeners are untouched; and once such an answer
\* is written to a peer that is still there the handler is reading again.
C32_CollaboratorFaultIsInvalidParams ==
    [][\A c \in Conns :
          /\ (hc[c].pc = "decode" /\ hc'[c].pc = "encode"
                 /\ hc'[c].req.Method = "tools/call"
                 /\ NamesRegisteredTool(hc'[c].req.Params)
                 /\ hc'[c].resp.Error.present)
                => /\ \E o \in Execute(BuiltinTools, hc'[c].req.Params.name,
                                       hc'[c].req.Params.arguments, files) :
                         /\ o.status = "err"
                         /\ hc'[c].resp.Error
                               = MCPError(InvalidParams, "Tool execution failed: " \o o.err)
                   /\ hc'[c].resp.Result = NilResult
                   /\ hc'[c].resp.ID = hc'[c].req.ID
                   /\ sside'[c] = "open" /\ ~crashed' /\ lst' = lst /\ listeners' = listeners
          /\ (hc[c].pc = "decode" /\ hc'[c].pc \in {"encode", "panic"}
                 /\ ReadsUnreadableText(hc'[c].req))
                => /\ hc'[c].pc = "encode"
                   /\ hc'[c].resp.Error
                         = MCPError(InvalidParams,
                                    "Failed to read resource: "
                                       \o NoSuchFile(RequestedURI(hc'[c].req.Params)))
                   /\ hc'[c].resp.Result = NilResult
                   /\ hc'[c].resp.ID = hc'[c].req.ID
                   /\ sside'[c] = "open" /\ ~crashed' /\ lst' = lst /\ listeners' = listeners
          /\ (hc[c].pc = "encode" /\ hc[c].resp.Error.present
                 /\ hc'[c].pc # "encode" /\ cside[c] = "open")
                => hc'[c].pc = "decode" /\ sside'[c] = "open" /\ ~crashed']_vars

\* the read of a registered text/plain resource whose file is missing is
\* being answered, as the second request of its connection
C32_Witness ==
    \E c \in RawConns :
        /\ hc[c].pc = "encode"
        /\ Len(reqLog[c]) = 2
        /\ ReadsUnreadableText(hc[c].req)
        /\ hc[c].resp.Error.present
        /\ hc[c].resp.Error.Code = InvalidParams
        /\ sside[c] = "open"

\* C37: a step that changes the resource table is a RegisterResource: the
\* new table is the old one with the descriptor just registered put under
\* its own uri, every other uri keeping its descriptor; a step of a
\* connection handler, whatever the method of the request and whether the
\* answer is a result or an error, leaves the table as it was; and every
\* descriptor of the table stands under its own uri.
C37_OnlyRegisterResourceChangesTheTable ==
    [][/\ (resources' # resources)
             => /\ registered' \in Registrations
                /\ DOMAIN resources' = DOMAIN resources \cup {registered'.URI}
                /\ resources'[registered'.URI] = registered'
                /\ \A u \in DOMAIN resources \ {registered'.URI} :
                       resources'[u] = resources[u]
       /\ (hc' # hc) => resources' = resources
       /\ \A u \in DOMAIN resources' : resources'[u].URI = u]_vars

\* a table of two uris, one of them just registered, while a handler answers
\* a resources/read with an error
C37_Witness ==
    /\ Cardinality(DOMAIN resources) = 2
    /\ registered \in Registrations
    /\ resources[registered.URI] = registered
    /\ \E c \in RawConns :
          /\ hc[c].pc = "encode"
          /\ hc[c].req.Method = "resources/read"
          /\ hc[c].resp.Error.present

(***************************************************************************)
(* The client connects a second time while the read loop of its first      *)
(* connection is still running.  ConnectUnix and ConnectTCP have no guard: *)
(* they replace c.conn, c.encoder and c.decoder and start another read     *)
(* loop; the first connection is not closed and its read loop is not       *)
(* stopped.                                                                *)
(***************************************************************************)
\* the connection the second net.Dial makes
SecondConn == "r1"

\* ConnectUnix or ConnectTCP called again: the loop that runs becomes the
\* earlier loop, still inside the Decode of the first connection's decoder or
\* in its delivery
ConnectAgain(l) ==
    /\ clientConn = ClientConn
    /\ rl.pc \in {"decode", "deliver"}
    /\ rl0.pc = "none"
    /\ Dial(SecondConn, l)
    /\ clientConn' = SecondConn
    /\ rl0' = [pc |-> rl.pc, resp |-> rl.resp, dec |-> ClientConn]
    /\ rl' = [NoReadLoop EXCEPT !.pc = "decode"]
    /\ UNCHANGED <<serverVars, files, cside, sside, c2s, s2c, logVars, closeErr, requestID,
                   responses, slot, call, serverInfo, lockVars>>

\* the earlier loop's Decode succeeded, on the decoder it was called on
EarlierLoopDecode ==
    /\ rl0.pc = "decode"
    /\ s2c[rl0.dec] # <<>>
    /\ Head(s2c[rl0.dec]).tag = "response"
    /\ rl0' = [rl0 EXCEPT !.pc = "deliver", !.resp = DecodeResponse(Head(s2c[rl0.dec]))]
    /\ s2c' = [s2c EXCEPT ![rl0.dec] = Tail(@)]
    /\ UNCHANGED <<serverVars, files, cstate, via, cside, sside, c2s, logVars, clientVars, lockVars>>

\* the earlier loop's Decode failed: the loop returns
EarlierLoopReturn ==
    /\ rl0.pc = "decode"
    /\ \/ s2c[rl0.dec] # <<>> /\ Head(s2c[rl0.dec]).tag # "response"
       \/ s2c[rl0.dec] = <<>> /\ (cside[rl0.dec] = "closed" \/ ServerEndClosed(rl0.dec))
    /\ rl0' = [NoEarlierLoop EXCEPT !.pc = "returned"]
    /\ UNCHANGED <<serverVars, files, connVars, logVars, clientVars, lockVars>>

\* the earlier loop's lookup and send; its next iteration evaluates
\* c.decoder again, which is the decoder of the connection made last
EarlierLoopDeliver ==
    /\ rl0.pc = "deliver"
    /\ slot' = IF Lookup(responses, rl0.resp.ID) /\ Len(slot[responses[rl0.resp.ID]]) < 1
               THEN [slot EXCEPT ![responses[rl0.resp.ID]] = Append(@, rl0.resp)]
               ELSE slot
    /\ call' = [k \in Callers |->
                  IF k \in Echoes(rl0.resp) /\ ~call[k].echoed
                  THEN [call[k] EXCEPT !.echoed = TRUE, !.echo = rl0.resp]
                  ELSE call[k]]
    /\ rl0' = [NoEarlierLoop EXCEPT !.pc = "decode", !.dec = clientConn]
    /\ UNCHANGED <<serverVars, files, connVars, logVars, clientConn, closeErr, requestID, responses,
                   rl, serverInfo, lockVars>>

earlierReadResponses == EarlierLoopDecode \/ EarlierLoopReturn \/ EarlierLoopDeliver

\* the second connection waits in the listener's backlog: the behaviours are
\* those in which the server has not yet accepted it
NextAgain ==
    \/ Start
    \/ Accept("unix", ClientConn)
    \/ handleConnection(ClientConn)
    \/ ConnectUnix
    \/ ConnectAgain("unix")
    \/ Close
    \/ Initialize("A")
    \/ \E k \in Callers : sendRequest(k)
    \/ \E k \in Callers : Return(k)
    \/ readResponses
    \/ earlierReadResponses
    \/ Tick

SpecAgain == Init /\ [][NextAgain]_vars

\* the read loops that are running and whose Decode reads the decoder of
\* connection c
LoopsDecodingFrom(c) ==
    {t \in {"rl", "rl0"} :
        \/ t = "rl" /\ rl.pc \in {"decode", "deliver"} /\ clientConn = c
        \/ t = "rl0" /\ rl0.pc = "decode" /\ rl0.dec = c}

\* C35: at most one running read loop decodes from the decoder of a
\* connection, and the read loop an earlier connect started never decodes
\* from the decoder of the connection made later.
C35_OneReadLoopPerDecoder ==
    /\ \A c \in Conns : Cardinality(LoopsDecodingFrom(c)) <= 1
    /\ rl0.pc = "decode" => rl0.dec = ClientConn

(***************************************************************************)
(* The tasks at the grain of their critical sections.  s.mu guards         *)
(* s.resources; c.mu guards c.responses.  A sync.RWMutex is held by one    *)
(* writer or by any number of readers, and a Lock that waits keeps new     *)
(* readers out.                                                            *)
(***************************************************************************)
\* mu.Lock() is called: the task waits for the lock
Lock(m, t) == mu' = [mu EXCEPT ![m].q = @ \cup {t}]

\* mu.Lock() returns
Locked(m, t) ==
    /\ mu[m].w = "none"
    /\ mu[m].r = {}
    /\ mu' = [mu EXCEPT ![m].w = t, ![m].q = @ \ {t}]

\* mu.Unlock()
Unlock(m, t) == mu' = [mu EXCEPT ![m].w = "none"]

\* mu.RLock() returns
RLock(m, t) ==
    /\ mu[m].w = "none"
    /\ mu[m].q = {}
    /\ mu' = [mu EXCEPT ![m].r = @ \cup {t}]

\* mu.RUnlock()
RUnlock(m, t) == mu' = [mu EXCEPT ![m].r = @ \ {t}]

\* RegisterResource is entered: s.mu.Lock() is called
AppLock(r) ==
    /\ ~crashed
    /\ app.pc = "idle"
    /\ Lock("s.mu", "app")
    /\ app' = [pc |-> "lock", r |-> r]
    /\ UNCHANGED <<serverVars, files, connVars, logVars, clientVars, found, rl0>>

AppLocked ==
    /\ app.pc = "lock"
    /\ Locked("s.mu", "app")
    /\ app' = [app EXCEPT !.pc = "store"]
    /\ UNCHANGED <<serverVars, files, connVars, logVars, clientVars, found, rl0>>

\* s.resources[uri] = Resource{...}
AppStore ==
    /\ app.pc = "store"
    /\ resources' = [u \in DOMAIN resources \cup {app.r.URI} |->
                       IF u = app.r.URI THEN app.r ELSE resources[u]]
    /\ registered' = app.r
    /\ app' = [app EXCEPT !.pc = "unlock"]
    /\ UNCHANGED <<listeners, lst, acc, hc, crashed, files, connVars, logVars, clientVars,
                   mu, found, rl0>>

\* the deferred s.mu.Unlock()
AppUnlock ==
    /\ app.pc = "unlock"
    /\ Unlock("s.mu", "app")
    /\ app' = NoRegistration
    /\ UNCHANGED <<serverVars, files, connVars, logVars, clientVars, found, rl0>>

RegisterResourceSteps ==
    \/ AppLocked
    \/ AppStore
    \/ AppUnlock

\* the methods whose handlers read s.resources
ResourceMethods == {"resources/list", "resources/read"}

\* decoder.Decode(&req) succeeded with a request for the resources and its
\* handler is entered
HandlerTake(c) ==
    /\ ~crashed
    /\ hc[c].pc = "decode"
    /\ c2s[c] # <<>>
    /\ \E w \in Incoming(c) :
          /\ w.tag = "request"
          /\ w.method \in ResourceMethods
          /\ c2s' = [c2s EXCEPT ![c] = Tail(@)]
          /\ reqLog' = [reqLog EXCEPT ![c] = Append(@, DecodeRequest(w).ID)]
          /\ hc' = [hc EXCEPT ![c] = [@ EXCEPT !.pc = "rlock", !.req = DecodeRequest(w)]]
    /\ found' = [found EXCEPT ![c] = <<>>]
    /\ UNCHANGED <<resources, registered, listeners, lst, acc, crashed, files, cstate, via,
                   cside, sside, s2c, respLog, clientVars, mu, app, rl0>>

\* a handler that reads the table without s.mu
HandlerRLockNotTaken(c) ==
    /\ hc[c].pc = "rlock"
    /\ hc' = [hc EXCEPT ![c].pc =
                 IF hc[c].req.Method = "resources/read" THEN "lookup"
                 ELSE IF DOMAIN resources = {} THEN "runlock" ELSE "list"]
    /\ UNCHANGED <<resources, registered, listeners, lst, acc, crashed, files, connVars,
                   logVars, clientVars, mu, app, found, rl0>>

\* s.mu.RLock(); handleListResources makes its slice
HandlerRLock(c) ==
    /\ hc[c].pc = "rlock"
    /\ RLock("s.mu", c)
    /\ hc' = [hc EXCEPT ![c].pc =
                 IF hc[c].req.Method = "resources/read" THEN "lookup"
                 ELSE IF DOMAIN resources = {} THEN "runlock" ELSE "list"]
    /\ UNCHANGED <<resources, registered, listeners, lst, acc, crashed, files, connVars,
                   logVars, clientVars, app, found, rl0>>

\* one iteration of range s.resources: resources = append(resources, resource)
HandlerCopy(c) ==
    /\ hc[c].pc = "list"
    /\ \E u \in DOMAIN resources \ DOMAIN found[c] :
          /\ found' = [found EXCEPT ![c] =
                          [v \in DOMAIN found[c] \cup {u} |->
                              IF v = u THEN resources[u] ELSE found[c][v]]]
          /\ hc' = [hc EXCEPT ![c].pc =
                       IF DOMAIN resources \subseteq DOMAIN found[c] \cup {u}
                       THEN "runlock" ELSE "list"]
    /\ UNCHANGED <<resources, registered, listeners, lst, acc, crashed, files, connVars,
                   logVars, clientVars, mu, app, rl0>>

\* resource, exists := s.resources[params.URI]
HandlerLookup(c) ==
    /\ hc[c].pc = "lookup"
    /\ found' = [found EXCEPT ![c] =
                    [u \in {ReadResourceParamsOf(hc[c].req.Params).URI} \cap DOMAIN resources
                        |-> resources[u]]]
    /\ hc' = [hc EXCEPT ![c].pc = "runlock"]
    /\ UNCHANGED <<resources, registered, listeners, lst, acc, crashed, files, connVars,
                   logVars, clientVars, mu, app, rl0>>

\* s.mu.RUnlock(), and the rest of the handler, which works on what was read
HandlerRUnlock(c) ==
    /\ ~crashed
    /\ hc[c].pc = "runlock"
    /\ RUnlock("s.mu", c)
    /\ \E o \in handleRequest(hc[c].req, BuiltinTools, found[c], files) :
          hc' = [hc EXCEPT ![c] = [pc |-> "encode", req |-> hc[c].req, resp |-> o.resp,
                                   read |-> o.read, last |-> hc[c].last]]
    /\ UNCHANGED <<resources, registered, listeners, lst, acc, crashed, files, connVars,
                   logVars, clientVars, app, found, rl0>>

resourceHandler(c) ==
    \/ HandlerTake(c)
    \/ HandlerRLock(c)
    \/ HandlerCopy(c)
    \/ HandlerLookup(c)
    \/ HandlerRUnlock(c)
    \/ ServerEncode(c)

\* a sendRequest that goes to its table access without calling c.mu.Lock()
CallerLockNotTaken(k) ==
    /\ call[k].pc \in {"register", "defer"}
    /\ call' = [call EXCEPT ![k].pc = IF call[k].pc = "register" THEN "insert" ELSE "delete"]
    /\ UNCHANGED <<serverVars, files, connVars, logVars, clientConn, closeErr, requestID,
                   responses, slot, rl, serverInfo, fineVars>>

\* c.mu.Lock() is called, at the start of sendRequest or in its deferred
\* function
CallerLock(k) ==
    /\ call[k].pc \in {"register", "defer"}
    /\ Lock("c.mu", k)
    /\ call' = [call EXCEPT ![k].pc = IF call[k].pc = "register" THEN "lock1" ELSE "lock2"]
    /\ UNCHANGED <<serverVars, files, connVars, logVars, clientConn, closeErr, requestID,
                   responses, slot, rl, serverInfo, app, found, rl0>>

CallerLocked(k) ==
    /\ call[k].pc \in {"lock1", "lock2"}
    /\ Locked("c.mu", k)
    /\ call' = [call EXCEPT ![k].pc = IF call[k].pc = "lock1" THEN "insert" ELSE "delete"]
    /\ UNCHANGED <<serverVars, files, connVars, logVars, clientConn, closeErr, requestID,
                   responses, slot, rl, serverInfo, app, found, rl0>>

\* c.responses[req.ID] = respChan
CallerInsert(k) ==
    /\ call[k].pc = "insert"
    /\ responses' = [i \in DOMAIN responses \cup {call[k].req.ID} |->
                       IF i = call[k].req.ID THEN k ELSE responses[i]]
    /\ slot' = [slot EXCEPT ![k] = <<>>]
    /\ call' = [call EXCEPT ![k].pc = "unlock1"]
    /\ UNCHANGED <<serverVars, files, connVars, logVars, clientConn, closeErr, requestID, rl,
                   serverInfo, fineVars>>

\* delete(c.responses, req.ID)
CallerDelete(k) ==
    /\ call[k].pc = "delete"
    /\ responses' = [i \in DOMAIN responses \ {call[k].req.ID} |-> responses[i]]
    /\ call' = [call EXCEPT ![k].pc = "unlock2"]
    /\ UNCHANGED <<serverVars, files, connVars, logVars, clientConn, closeErr, requestID, slot,
                   rl, serverInfo, fineVars>>

\* c.mu.Unlock()
CallerUnlock(k) ==
    /\ call[k].pc \in {"unlock1", "unlock2"}
    /\ Unlock("c.mu", k)
    /\ call' = [call EXCEPT ![k].pc = IF call[k].pc = "unlock1" THEN "encode" ELSE "return"]
    /\ UNCHANGED <<serverVars, files, connVars, logVars, clientConn, closeErr, requestID,
                   responses, slot, rl, serverInfo, app, found, rl0>>

sendRequestSteps(k) ==
    \/ CallerLock(k)
    \/ CallerLocked(k)
    \/ CallerInsert(k)
    \/ EncodeOK(k)
    \/ SelectTimeout(k)
    \/ CallerDelete(k)
    \/ CallerUnlock(k)

\* c.mu.RLock() returns in the read loop
LoopRLock ==
    /\ rl.pc = "deliver"
    /\ RLock("c.mu", "rl")
    /\ rl' = [rl EXCEPT !.pc = "lookup"]
    /\ UNCHANGED <<serverVars, files, connVars, logVars, clientConn, closeErr, requestID,
                   responses, slot, call, serverInfo, app, found, rl0>>

\* the lookup, and the select that sends to the channel or takes its default
LoopDeliver ==
    /\ rl.pc = "lookup"
    /\ slot' = IF Lookup(responses, rl.resp.ID) /\ Len(slot[responses[rl.resp.ID]]) < 1
               THEN [slot EXCEPT ![responses[rl.resp.ID]] = Append(@, rl.resp)]
               ELSE slot
    /\ rl' = [rl EXCEPT !.pc = "runlock"]
    /\ UNCHANGED <<serverVars, files, connVars, logVars, clientConn, closeErr, requestID,
                   responses, call, serverInfo, fineVars>>

\* a read loop that goes back to Decode with the lock still held
LoopRUnlockNotDone ==
    /\ rl.pc = "runlock"
    /\ rl' = [NoReadLoop EXCEPT !.pc = "decode"]
    /\ UNCHANGED <<serverVars, files, connVars, logVars, clientConn, closeErr, requestID,
                   responses, slot, call, serverInfo, fineVars>>

\* c.mu.RUnlock(), and the next iteration
LoopRUnlock ==
    /\ rl.pc = "runlock"
    /\ RUnlock("c.mu", "rl")
    /\ rl' = [NoReadLoop EXCEPT !.pc = "decode"]
    /\ UNCHANGED <<serverVars, files, connVars, logVars, clientConn, closeErr, requestID,
                   responses, slot, call, serverInfo, app, found, rl0>>

readResponsesSteps ==
    \/ ReadLoopDecode
    \/ LoopRLock
    \/ LoopDeliver
    \/ LoopRUnlock

\* no mcp.Client has connected: the server's table is at work
NoClient == clientConn = "nil"

\* no peer has dialled and nothing was registered: the client's table is at
\* work
NoPeer == cstate["r1"] = "free" /\ app.pc = "idle" /\ registered = NoResource

\* either the hosting application registers resources while a peer asks for
\* them, or the callers of an mcp.Client call while its read loop runs: the
\* two tables, their locks and their tasks have nothing in common
NextLocks ==
    \/ Start
    \/ \E r \in Registrations : NoClient /\ AppLock(r)
    \/ RegisterResourceSteps
    \/ NoClient /\ RawDial("r1", "unix")
    \/ Accept("unix", "r1")
    \/ RawSend("r1")
    \/ resourceHandler("r1")
    \/ NoPeer /\ ConnectUnix
    \/ Accept("unix", ClientConn)
    \/ ServerDecode(ClientConn)
    \/ ServerEncode(ClientConn)
    \/ Initialize("A")
    \/ ListTools("B")
    \/ \E k \in Callers : sendRequestSteps(k)
    \/ \E k \in Callers : Return(k)
    \/ readResponsesSteps
    \/ Tick

SpecLocks == Init /\ [][NextLocks]_vars

\* the tasks that are at a write of a table, and those at a read of it
ResourceWriters == IF app.pc = "store" THEN {"app"} ELSE {}
ResourceReaders == {c \in Conns : hc[c].pc \in {"list", "lookup"}}
PendingWriters == {k \in Callers : call[k].pc \in {"insert", "delete"}}
PendingReaders == IF rl.pc = "lookup" THEN {"rl"} ELSE {}

\* C33: a task that is at a write of the resource table or of the
\* pending-call table holds the table's lock for writing and is the only
\* task at an access of that table; a task that is at a read of a table
\* holds the table's lock for reading.
C33_TablesAreAccessedUnderTheirLocks ==
    /\ \A t \in ResourceWriters :
          /\ mu["s.mu"].w = t
          /\ ResourceWriters \cup ResourceReaders = {t}
    /\ \A t \in ResourceReaders : t \in mu["s.mu"].r /\ mu["s.mu"].w = "none"
    /\ \A t \in PendingWriters :
          /\ mu["c.mu"].w = t
          /\ PendingWriters \cup PendingReaders = {t}
    /\ \A t \in PendingReaders : t \in mu["c.mu"].r /\ mu["c.mu"].w = "none"

\* a caller is at its insert while the other caller, whose call timed out,
\* waits for the lock to delete its entry and the read loop has a response
\* to look up
C33_Witness ==
    \E k \in Callers :
        /\ call[k].pc = "insert"
        /\ \E j \in Callers \ {k} : call[j].pc = "lock2" /\ j \in mu["c.mu"].q
        /\ rl.pc = "deliver"

\* the result of resources/list for a table
ListOf(tbl) == [kind |-> "resources", resources |-> {tbl[u] : u \in DOMAIN tbl}]

\* C34: while a handler of resources/list copies the table, each descriptor
\* it has copied is the one the table has; when it releases the lock its
\* response lists the descriptors of the table as the table is at that
\* instant, all of them and nothing else; and from then on, until the
\* response is written, no step changes the response, whatever is registered
\* meanwhile.
C34_ListIsASnapshot ==
    [][\A c \in Conns :
          /\ (hc[c].req.Method = "resources/list" /\ hc[c].pc \in {"list", "runlock"})
                => \A u \in DOMAIN found[c] :
                       u \in DOMAIN resources /\ found[c][u] = resources[u]
          /\ (hc[c].req.Method = "resources/list" /\ hc[c].pc = "runlock"
                 /\ hc'[c].pc = "encode")
                => /\ hc'[c].resp.Result = ListOf(resources)
                   /\ hc'[c].resp.Error = NilError
                   /\ resources' = resources
          /\ (hc[c].req.Method = "resources/list" /\ hc[c].pc = "encode"
                 /\ hc'[c].pc = "encode")
                => hc'[c].resp = hc[c].resp]_vars

\* a response of resources/list that lists a descriptor is waiting to be
\* written, and the table is no longer what the response lists
C34_Witness ==
    \E c \in RawConns :
        /\ hc[c].pc = "encode"
        /\ hc[c].req.Method = "resources/list"
        /\ hc[c].resp.Result.kind = "resources"
        /\ hc[c].resp.Result.resources # {}
        /\ hc[c].resp.Result # ListOf(resources)
        /\ \E u \in DOMAIN resources : resources[u] \notin hc[c].resp.Result.resources

\* Go's scheduler runs every task that can take a step, time passes, and a
\* task that waits in Lock is not passed over for ever
LocksFairness ==
    /\ \A k \in Callers :
          /\ WF_vars(CallerInsert(k) \/ CallerDelete(k) \/ CallerUnlock(k))
          /\ SF_vars(CallerLocked(k))
    /\ WF_vars(LoopRLock \/ LoopDeliver \/ LoopRUnlock)

SpecLocksLive == SpecLocks /\ LocksFairness

\* C36: the read loop that holds the pending-call table's lock can always
\* take its next step, it never waits in Decode with the lock held, and a
\* caller that waits for the lock, to insert or to delete its entry, gets it.
C36_ReadLoopNeverBlocksUnderTheLock ==
    /\ [](rl.pc \in {"lookup", "runlock"}
             => "rl" \in mu["c.mu"].r /\ ENABLED (LoopDeliver \/ LoopRUnlock))
    /\ [](rl.pc \in {"decode", "deliver"} => "rl" \notin mu["c.mu"].r)
    /\ \A k \in Callers :
          (call[k].pc \in {"lock1", "lock2"}) ~> (mu["c.mu"].w = k)

\* a caller waits for the lock while the read loop holds it for its lookup
C36_Witness ==
    \E k \in Callers :
        /\ call[k].pc \in {"lock1", "lock2"}
        /\ k \in mu["c.mu"].q
        /\ rl.pc = "lookup"
        /\ "rl" \in mu["c.mu"].r

====
